---- MODULE Spec2Model ----
(***************************************************************************)
(* Model of the PolicyEngine LegislationBuilder reform pipeline:           *)
(* extraction of the reform literal from source text, normalisation of the *)
(* reform mapping into parameter records, rendering of the records into a  *)
(* plain-language description, metadata lookup, and the drafting requests  *)
(* that send the description to the text-generation service.               *)
(*                                                                         *)
(* Python strings are TLA+ strings, handled character by character.  A     *)
(* Python dict is a sequence of <<key, value>> pairs with distinct keys,   *)
(* in insertion order.  A Python scalar is a tagged record                  *)
(* [t, n, s]: t = "int" (n the integer), t = "float" (n the value in       *)
(* thousandths), t = "str" (s the text), t = "none".                       *)
(***************************************************************************)
EXTENDS Integers, Sequences, FiniteSets, TLC

VARIABLES
  entry,        \* the function the caller invoked
  pc,           \* the stage the request has reached
  code,         \* the source text handed to an extractor
  literal,      \* the parameter blocks written in the reform literal of code
  reform_dict,  \* the reform mapping: path -> (date-range key -> value)
  policy_info,  \* the policy information built by _process_reform_dict
  reform,       \* the PolicyReform object built by _dict_to_reform_object
  description,  \* the rendered description
  error,        \* the exception raised, "" when none
  package,      \* the installed parameter package, as the lookup finds it
  param_info,   \* the record returned by get_parameter_info
  reforms_info, \* the records returned by parse_policy_reform
  collaborator, \* what the text-generation service does with a request
  requests,     \* the requests sent to the text-generation service so far
  bill_text     \* the bill text returned or displayed

vars ==
  <<entry, pc, code, literal, reform_dict, policy_info, reform, description, error,
    package, param_info, reforms_info, collaborator, requests, bill_text>>

(***************************************************************************)
(* Bounds of the explored inputs.                                          *)
(***************************************************************************)
MaxParams == 2
MaxChanges == 2

(***************************************************************************)
(* Python scalars.                                                         *)
(***************************************************************************)
PyInt(i) == [t |-> "int", n |-> i, s |-> ""]
PyFloat(m) == [t |-> "float", n |-> m, s |-> ""]
PyStr(x) == [t |-> "str", n |-> 0, s |-> x]
PyNone == [t |-> "none", n |-> 0, s |-> ""]

\* Python truthiness of a scalar: None, 0, 0.0 and "" are false.
Truthy(v) ==
  CASE v.t = "none" -> FALSE
    [] v.t = "str" -> v.s # ""
    [] OTHER -> v.n # 0

\* isinstance(value, (int, float))
IsNumeric(v) == v.t \in {"int", "float"}

(***************************************************************************)
(* Python str operations.                                                  *)
(***************************************************************************)
Ch(s, i) == SubSeq(s, i, i)

Digits == "0123456789"
LowerLetters == "abcdefghijklmnopqrstuvwxyz"
UpperLetters == "ABCDEFGHIJKLMNOPQRSTUVWXYZ"

\* position of the one-character string c in alphabet, 0 when absent
PosIn(c, alphabet) ==
  LET hits == {i \in 1..Len(alphabet) : Ch(alphabet, i) = c}
  IN IF hits = {} THEN 0 ELSE CHOOSE i \in hits : TRUE

\* character tables
DigitValue == [c \in {Ch(Digits, i) : i \in 1..10} |-> PosIn(c, Digits) - 1]
ToLower == [c \in {Ch(UpperLetters, i) : i \in 1..26} |-> Ch(LowerLetters, PosIn(c, UpperLetters))]
ToUpper == [c \in {Ch(LowerLetters, i) : i \in 1..26} |-> Ch(UpperLetters, PosIn(c, LowerLetters))]

IsDigitCh(c) == c \in DOMAIN DigitValue
IsLowerCh(c) == c \in DOMAIN ToUpper
IsUpperCh(c) == c \in DOMAIN ToLower
LowerCh(c) == IF IsUpperCh(c) THEN ToLower[c] ELSE c
UpperCh(c) == IF IsLowerCh(c) THEN ToUpper[c] ELSE c

\* s.startswith(sub) at 1-based position i
MatchAt(s, sub, i) == i >= 1 /\ i + Len(sub) - 1 <= Len(s) /\ SubSeq(s, i, i + Len(sub) - 1) = sub

\* s.find(sub, from): least position >= from where sub occurs, 0 when none
Find(s, sub, from) ==
  LET First(hits) == IF hits = {} THEN 0 ELSE CHOOSE i \in hits : \A j \in hits : i <= j
  IN First({i \in from..(Len(s) - Len(sub) + 1) : MatchAt(s, sub, i)})

\* sub in s
Contains(s, sub) == \E i \in 1..(Len(s) - Len(sub) + 1) : MatchAt(s, sub, i)

RECURSIVE MapChars(_, _)
\* s.lower() when lower, s.upper() otherwise
MapChars(s, lower) ==
  IF s = "" THEN ""
  ELSE (IF lower THEN LowerCh(Ch(s, 1)) ELSE UpperCh(Ch(s, 1))) \o MapChars(SubSeq(s, 2, Len(s)), lower)

\* s.lower(), s.upper()
Lower(s) == MapChars(s, TRUE)
Upper(s) == MapChars(s, FALSE)

RECURSIVE ReplaceCh(_, _, _)
\* s.replace(a, b) for a one-character a
ReplaceCh(s, a, b) ==
  IF s = "" THEN ""
  ELSE (IF Ch(s, 1) = a THEN b ELSE Ch(s, 1)) \o ReplaceCh(SubSeq(s, 2, Len(s)), a, b)

RECURSIVE TitleFrom(_, _)
\* s.title(): a letter is uppercased when the previous character is not a
\* letter and lowercased when it is
TitleFrom(s, prevCased) ==
  IF s = "" THEN ""
  ELSE LET c == Ch(s, 1)
           cased == IsLowerCh(c) \/ IsUpperCh(c)
       IN (IF ~cased THEN c ELSE IF prevCased THEN LowerCh(c) ELSE UpperCh(c))
            \o TitleFrom(SubSeq(s, 2, Len(s)), cased)

Title(s) == TitleFrom(s, FALSE)

RECURSIVE Split(_, _)
\* s.split(sep) for a one-character separator: always at least one part
Split(s, sep) ==
  LET i == Find(s, sep, 1)
  IN IF i = 0 THEN <<s>>
     ELSE <<SubSeq(s, 1, i - 1)>> \o Split(SubSeq(s, i + 1, Len(s)), sep)

\* s.isdigit(): non-empty and every character a digit
IsDigit(s) == s # "" /\ \A i \in 1..Len(s) : IsDigitCh(Ch(s, i))

RECURSIVE DigitsToInt(_)
\* int(s) for a string of digits
DigitsToInt(s) ==
  IF s = "" THEN 0
  ELSE 10 * DigitsToInt(SubSeq(s, 1, Len(s) - 1)) + DigitValue[Ch(s, Len(s))]

RECURSIVE NatToStr(_)
\* str(n) for n >= 0
NatToStr(n) ==
  IF n < 10 THEN Ch(Digits, n + 1)
  ELSE NatToStr(n \div 10) \o Ch(Digits, (n % 10) + 1)

RECURSIVE JoinStr(_, _)
\* sep.join(parts)
JoinStr(parts, sep) ==
  IF parts = <<>> THEN ""
  ELSE IF Len(parts) = 1 THEN parts[1]
  ELSE parts[1] \o sep \o JoinStr(Tail(parts), sep)

(***************************************************************************)
(* Python dict operations (a dict is a sequence of <<key, value>> pairs).  *)
(***************************************************************************)
DictKeys(d) == [i \in 1..Len(d) |-> d[i][1]]
DictHas(d, k) == \E i \in 1..Len(d) : d[i][1] = k
DictGet(d, k) == d[CHOOSE i \in 1..Len(d) : d[i][1] = k][2]

\* d[k] = v: an existing key keeps its position, a new key is appended
DictSet(d, k, v) ==
  IF DictHas(d, k)
  THEN [i \in 1..Len(d) |-> IF d[i][1] = k THEN <<k, v>> ELSE d[i]]
  ELSE Append(d, <<k, v>>)

\* record.get(field, default) on a record with optional fields
Get(r, field, default) == IF field \in DOMAIN r THEN r[field] ELSE default

(***************************************************************************)
(* Parameter path analysis (utils/policy_parser.py).                       *)
(***************************************************************************)
RECURSIVE CoreParts(_)
\* the loop of _get_readable_name: bracket-only parts are skipped, a
\* bracket suffix is cut off
CoreParts(path_parts) ==
  IF path_parts = <<>> THEN <<>>
  ELSE LET part == path_parts[1]
           rest == CoreParts(Tail(path_parts))
       IN IF MatchAt(part, "[", 1) /\ part # "" /\ Ch(part, Len(part)) = "]" THEN rest
          ELSE IF Contains(part, "[") THEN <<Split(part, "[")[1]>> \o rest
          ELSE <<part>> \o rest

_get_readable_name(path_parts) ==
  LET core_parts == CoreParts(path_parts)
  IN IF core_parts # <<>>
     THEN Title(ReplaceCh(core_parts[Len(core_parts)], "_", " "))
     ELSE "Unknown Parameter"

\* an agency lookup that does not test the root segment
ExtractAgencyAnyRoot(path_parts) ==
  IF Len(path_parts) >= 2
  THEN CASE path_parts[2] = "irs" -> "Internal Revenue Service"
         [] path_parts[2] = "hhs" -> "Health and Human Services"
         [] path_parts[2] = "usda" -> "Department of Agriculture"
         [] path_parts[2] = "dol" -> "Department of Labor"
         [] path_parts[2] = "ssi" -> "Social Security Administration"
         [] OTHER -> Upper(path_parts[2])
  ELSE "Federal Government"

_extract_agency(path_parts) ==
  IF Len(path_parts) >= 2 /\ path_parts[1] = "gov"
  THEN CASE path_parts[2] = "irs" -> "Internal Revenue Service"
         [] path_parts[2] = "hhs" -> "Health and Human Services"
         [] path_parts[2] = "usda" -> "Department of Agriculture"
         [] path_parts[2] = "dol" -> "Department of Labor"
         [] path_parts[2] = "ssi" -> "Social Security Administration"
         [] OTHER -> Upper(path_parts[2])
  ELSE "Federal Government"

\* a classifier that tests "amount" before "credit" and "deduction"
InferTypeAmountFirst(path_parts) ==
  LET path_str == Lower(JoinStr(path_parts, "."))
  IN IF Contains(path_str, "amount") THEN "Benefit Amount"
     ELSE IF Contains(path_str, "credit") \/ Contains(path_str, "ctc") THEN "Tax Credit"
     ELSE IF Contains(path_str, "deduction") THEN "Tax Deduction"
     ELSE IF Contains(path_str, "rate") THEN "Tax Rate"
     ELSE IF Contains(path_str, "threshold") \/ Contains(path_str, "limit") THEN "Threshold"
     ELSE IF Contains(path_str, "eligibility") THEN "Eligibility Criteria"
     ELSE "Policy Parameter"

_infer_parameter_type(path_parts) ==
  LET path_str == Lower(JoinStr(path_parts, "."))
  IN IF Contains(path_str, "credit") \/ Contains(path_str, "ctc") THEN "Tax Credit"
     ELSE IF Contains(path_str, "deduction") THEN "Tax Deduction"
     ELSE IF Contains(path_str, "amount") THEN "Benefit Amount"
     ELSE IF Contains(path_str, "rate") THEN "Tax Rate"
     ELSE IF Contains(path_str, "threshold") \/ Contains(path_str, "limit") THEN "Threshold"
     ELSE IF Contains(path_str, "eligibility") THEN "Eligibility Criteria"
     ELSE "Policy Parameter"

(***************************************************************************)
(* Normalisation (utils/policy_parser.py).                                 *)
(***************************************************************************)
\* does int(s) return (TRUE) or raise ValueError (FALSE); the date fields
\* explored carry no sign, blank or underscore, so int() accepts exactly
\* the digit strings
IntParses(s) == IsDigit(s)

\* r[field] = v on a dict with optional fields
SetField(r, field, v) == [x \in (DOMAIN r) \cup {field} |-> IF x = field THEN v ELSE r[x]]

\* one iteration of the loop of _parse_parameter
ParseChange(parameter, date_range, value) ==
  LET dates == Split(date_range, ".")
  IN IF Len(dates) >= 2
     THEN LET start_date == dates[1]
              end_date == dates[2]
              appended == [parameter EXCEPT !.changes =
                             Append(@, [start_date |-> PyStr(start_date), end_date |-> PyStr(end_date),
                                        value |-> value])]
              year_text == Split(start_date, "-")[1]
          IN IF IntParses(year_text)
             THEN SetField(appended, "year", PyInt(DigitsToInt(year_text)))
             ELSE appended
     ELSE [parameter EXCEPT !.changes = Append(@, [date_range |-> PyStr(date_range), value |-> value])]

RECURSIVE ParseChanges(_, _)
ParseChanges(parameter, items) ==
  IF items = <<>> THEN parameter
  ELSE ParseChanges(ParseChange(parameter, items[1][1], items[1][2]), Tail(items))

_parse_parameter(param_path, value_dict) ==
  LET path_parts == Split(param_path, ".")
      parameter == [path |-> param_path,
                    name |-> _get_readable_name(path_parts),
                    agency |-> _extract_agency(path_parts),
                    type |-> _infer_parameter_type(path_parts),
                    changes |-> <<>>]
  IN ParseChanges(parameter, value_dict)

\* datetime.now().year
CurrentYear == 2026

\* a normaliser that passes over the parameters that have no change
ProcessSkippingEmpty(dict) ==
  LET HasChanges(e) == e[2] # <<>>
      kept == SelectSeq(dict, HasChanges)
  IN [parameters |-> [i \in 1..Len(kept) |-> _parse_parameter(kept[i][1], kept[i][2])],
      country |-> "United States",
      year |-> CurrentYear]

_process_reform_dict(dict) ==
  [parameters |-> [i \in 1..Len(dict) |-> _parse_parameter(dict[i][1], dict[i][2])],
   country |-> "United States",
   year |-> CurrentYear]

(***************************************************************************)
(* Number formatting (Python format specifications).                       *)
(***************************************************************************)
Abs(i) == IF i < 0 THEN -i ELSE i
Sign(i) == IF i < 0 THEN "-" ELSE ""

\* three digits, zero padded
Pad3(n) == (IF n < 100 THEN "0" ELSE "") \o (IF n < 10 THEN "0" ELSE "") \o NatToStr(n)

RECURSIVE Commas(_)
\* format(n, ",") for n >= 0
Commas(n) ==
  IF n < 1000 THEN NatToStr(n)
  ELSE Commas(n \div 1000) \o "," \o Pad3(n % 1000)

\* q / unit rounded to the nearest integer, an exact tie going to the even
\* neighbour (q >= 0).  Python rounds the binary double: a tie that is not
\* exactly representable in binary is decided by the double and is not
\* among the explored values
RoundHalfEven(q, unit) ==
  LET lo == q \div unit
      r == q % unit
  IN IF 2 * r < unit THEN lo
     ELSE IF 2 * r > unit THEN lo + 1
     ELSE IF lo % 2 = 0 THEN lo ELSE lo + 1

\* a count of tenths as "d.d"
Tenths(sign, t) == sign \o NatToStr(t \div 10) \o "." \o NatToStr(t % 10)

\* the fraction digits of repr(float): trailing zeros dropped, one kept
FracDigits(m) ==
  IF m % 1000 = 0 THEN "0"
  ELSE IF m % 100 = 0 THEN NatToStr((m % 1000) \div 100)
  ELSE IF m % 10 = 0 THEN SubSeq(Pad3(m % 1000), 1, 2)
  ELSE Pad3(m % 1000)

\* f"{value * 100:.1f}"
FormatTimes100F1(v) ==
  IF v.t = "int" THEN Sign(v.n) \o NatToStr(Abs(v.n) * 100) \o ".0"
  ELSE Tenths(Sign(v.n), Abs(v.n))

\* f"{value:.1f}"
FormatF1(v) ==
  IF v.t = "int" THEN Sign(v.n) \o NatToStr(Abs(v.n)) \o ".0"
  ELSE Tenths(Sign(v.n), RoundHalfEven(Abs(v.n), 100))

\* f"{value:,.0f}"
FormatComma0F(v) ==
  IF v.t = "int" THEN Sign(v.n) \o Commas(Abs(v.n))
  ELSE Sign(v.n) \o Commas(RoundHalfEven(Abs(v.n), 1000))

\* f"{value:,}"
FormatComma(v) ==
  IF v.t = "int" THEN Sign(v.n) \o Commas(Abs(v.n))
  ELSE Sign(v.n) \o Commas(Abs(v.n) \div 1000) \o "." \o FracDigits(Abs(v.n))

\* value < 1
LessThanOne(v) == IF v.t = "int" THEN v.n < 1 ELSE v.n < 1000

\* str(value)
StrOf(v) ==
  CASE v.t = "str" -> v.s
    [] v.t = "none" -> "None"
    [] v.t = "int" -> Sign(v.n) \o NatToStr(Abs(v.n))
    [] OTHER -> Sign(v.n) \o NatToStr(Abs(v.n) \div 1000) \o "." \o FracDigits(Abs(v.n))

(***************************************************************************)
(* Domain objects (models/policy_reform.py).                               *)
(***************************************************************************)
\* PolicyChange.get_year: None on ValueError, IndexError, AttributeError
get_year(change) ==
  IF change.start_date.t # "str" THEN PyNone
  ELSE LET year_text == Split(change.start_date.s, "-")[1]
       IN IF IntParses(year_text) THEN PyInt(DigitsToInt(year_text)) ELSE PyNone

\* a date phrase that looks for the open-ended sentinel in the start year
FormattedDatesSentinelOnStart(change) ==
  IF Truthy(change.date_range) THEN StrOf(change.date_range)
  ELSE IF change.start_date.t # "str" \/ change.end_date.t # "str"
       THEN "for a specified period"
  ELSE LET start_year == Split(change.start_date.s, "-")[1]
           end_year == Split(change.end_date.s, "-")[1]
       IN IF start_year = "2100"
          THEN "starting in " \o start_year
          ELSE "from " \o start_year \o " to " \o end_year

get_formatted_dates(change) ==
  IF Truthy(change.date_range) THEN StrOf(change.date_range)
  ELSE IF change.start_date.t # "str" \/ change.end_date.t # "str"
       THEN "for a specified period"
  ELSE LET start_year == Split(change.start_date.s, "-")[1]
           end_year == Split(change.end_date.s, "-")[1]
       IN IF end_year = "2100"
          THEN "starting in " \o start_year
          ELSE "from " \o start_year \o " to " \o end_year

RECURSIVE FirstChangeYear(_)
FirstChangeYear(changes) ==
  IF changes = <<>> THEN PyInt(CurrentYear)
  ELSE IF Truthy(get_year(changes[1])) THEN get_year(changes[1])
  ELSE FirstChangeYear(Tail(changes))

get_effective_year(parameter) ==
  IF Truthy(parameter.year) THEN parameter.year
  ELSE FirstChangeYear(parameter.changes)

\* value <= 1
AtMostOne(v) == IF v.t = "int" THEN v.n <= 1 ELSE v.n <= 1000

\* a formatter that scales a rate by 100 when value <= 1
FormattedValueScalingOne(parameter, change_index) ==
  IF parameter.changes = <<>> \/ change_index >= Len(parameter.changes)
  THEN "modified value"
  ELSE LET value == parameter.changes[change_index + 1].value
       IN IF IsNumeric(value)
          THEN IF parameter.type = "Tax Rate" \/ Contains(Lower(parameter.path), "rate")
               THEN (IF AtMostOne(value) THEN FormatTimes100F1(value) ELSE FormatF1(value)) \o "%"
               ELSE IF Contains(Lower(parameter.path), "amount") \/ Contains(Lower(parameter.path), "benefit")
               THEN "$" \o FormatComma0F(value)
               ELSE FormatComma(value)
          ELSE StrOf(value)

\* a formatter that tests the currency rule before the percentage rule
FormattedValueAmountFirst(parameter, change_index) ==
  IF parameter.changes = <<>> \/ change_index >= Len(parameter.changes)
  THEN "modified value"
  ELSE LET value == parameter.changes[change_index + 1].value
       IN IF IsNumeric(value)
          THEN IF Contains(Lower(parameter.path), "amount") \/ Contains(Lower(parameter.path), "benefit")
               THEN "$" \o FormatComma0F(value)
               ELSE IF parameter.type = "Tax Rate" \/ Contains(Lower(parameter.path), "rate")
               THEN (IF LessThanOne(value) THEN FormatTimes100F1(value) ELSE FormatF1(value)) \o "%"
               ELSE FormatComma(value)
          ELSE StrOf(value)

get_formatted_value(parameter, change_index) ==
  IF parameter.changes = <<>> \/ change_index >= Len(parameter.changes)
  THEN "modified value"
  ELSE LET value == parameter.changes[change_index + 1].value
       IN IF IsNumeric(value)
          THEN IF parameter.type = "Tax Rate" \/ Contains(Lower(parameter.path), "rate")
               THEN (IF LessThanOne(value) THEN FormatTimes100F1(value) ELSE FormatF1(value)) \o "%"
               ELSE IF Contains(Lower(parameter.path), "amount") \/ Contains(Lower(parameter.path), "benefit")
               THEN "$" \o FormatComma0F(value)
               ELSE FormatComma(value)
          ELSE StrOf(value)

RECURSIVE ProgramOfParts(_)
\* the loop of get_program_name over the path parts: "" when no part matches
ProgramOfParts(parts) ==
  IF parts = <<>> THEN ""
  ELSE LET part_lower == Lower(parts[1])
       IN CASE part_lower = "ctc" -> "Child Tax Credit"
            [] part_lower = "eitc" -> "Earned Income Tax Credit"
            [] part_lower = "snap" -> "Supplemental Nutrition Assistance Program"
            [] part_lower = "tanf" -> "Temporary Assistance for Needy Families"
            [] part_lower = "ssi" -> "Supplemental Security Income"
            [] part_lower = "ui" -> "Unemployment Insurance"
            [] part_lower = "housing" \/ part_lower = "section8" -> "Housing Assistance"
            [] part_lower = "medicaid" -> "Medicaid"
            [] OTHER -> ProgramOfParts(Tail(parts))

\* a program name that compares the path parts as written, case included
ProgramNameCaseSensitive(r) ==
  IF r.parameters = <<>> THEN "Tax and Transfer Program"
  ELSE LET parts == Split(r.parameters[1].path, ".")
           marked == {i \in 1..Len(parts) :
                        parts[i] \in {"ctc", "eitc", "snap", "tanf", "ssi", "ui", "housing", "section8", "medicaid"}}
           Program(part) ==
             CASE part = "ctc" -> "Child Tax Credit"
               [] part = "eitc" -> "Earned Income Tax Credit"
               [] part = "snap" -> "Supplemental Nutrition Assistance Program"
               [] part = "tanf" -> "Temporary Assistance for Needy Families"
               [] part = "ssi" -> "Supplemental Security Income"
               [] part = "ui" -> "Unemployment Insurance"
               [] part = "medicaid" -> "Medicaid"
               [] OTHER -> "Housing Assistance"
       IN IF marked # {} THEN Program(parts[CHOOSE i \in marked : \A j \in marked : i <= j])
          ELSE IF r.parameters[1].type # "" THEN r.parameters[1].type \o " Program"
          ELSE "Government Program"

get_program_name(r) ==
  IF r.parameters = <<>> THEN "Tax and Transfer Program"
  ELSE LET found == ProgramOfParts(Split(r.parameters[1].path, "."))
       IN IF found # "" THEN found
          ELSE IF r.parameters[1].type # "" THEN r.parameters[1].type \o " Program"
          ELSE "Government Program"

(***************************************************************************)
(* Rendering (utils/text_generator.py).                                    *)
(***************************************************************************)
\* the PolicyChange built from one change record
ChangeObject(change_dict) ==
  [start_date |-> Get(change_dict, "start_date", PyStr("")),
   end_date |-> Get(change_dict, "end_date", PyStr("")),
   value |-> Get(change_dict, "value", PyNone),
   date_range |-> Get(change_dict, "date_range", PyNone)]

\* the PolicyParameter built from one parameter record
ParameterObject(param_dict) ==
  LET change_dicts == Get(param_dict, "changes", <<>>)
  IN [path |-> Get(param_dict, "path", ""),
      name |-> Get(param_dict, "name", "Unknown Parameter"),
      agency |-> Get(param_dict, "agency", "Federal Government"),
      type |-> Get(param_dict, "type", "Policy Parameter"),
      changes |-> [i \in 1..Len(change_dicts) |-> ChangeObject(change_dicts[i])],
      year |-> Get(param_dict, "year", PyNone)]

_dict_to_reform_object(info) ==
  LET param_dicts == Get(info, "parameters", <<>>)
  IN [parameters |-> [i \in 1..Len(param_dicts) |-> ParameterObject(param_dicts[i])],
      country |-> Get(info, "country", "United States"),
      year |-> Get(info, "year", 2025),
      metrics |-> Get(info, "metrics", <<>>),
      simulation_year |-> Get(info, "simulation_year", PyNone),
      difference_variable |-> Get(info, "difference_variable", PyNone)]

\* a summary written from the first parameter that has a change
SummaryOfFirstChangedParameter(r) ==
  LET Sentence(primary_param) ==
        LET tail == " to " \o get_formatted_value(primary_param, 0) \o " "
                      \o get_formatted_dates(primary_param.changes[1]) \o "."
        IN CASE primary_param.type = "Tax Credit" -> "This reform modifies the " \o primary_param.name \o tail
             [] primary_param.type = "Tax Rate" -> "This reform sets the " \o primary_param.name \o tail
             [] primary_param.type = "Benefit Amount" -> "This reform changes the " \o primary_param.name \o tail
             [] primary_param.type = "Threshold" -> "This reform adjusts the " \o primary_param.name \o tail
             [] OTHER -> "This reform changes the " \o primary_param.name \o " parameter" \o tail
      Of(changed) ==
        IF changed = {}
        THEN "This reform modifies one or more parameters of the federal tax and transfer system."
        ELSE Sentence(r.parameters[CHOOSE i \in changed : \A j \in changed : i <= j])
  IN IF r.parameters = <<>>
     THEN "This reform modifies federal tax and transfer policy parameters."
     ELSE Of({i \in 1..Len(r.parameters) : r.parameters[i].changes # <<>>})

\* a summary written from the last change of the first parameter
SummaryOfLastChange(r) ==
  IF r.parameters = <<>>
  THEN "This reform modifies federal tax and transfer policy parameters."
  ELSE LET primary_param == r.parameters[1]
       IN IF primary_param.changes # <<>>
          THEN LET last == Len(primary_param.changes)
                   tail == " to " \o get_formatted_value(primary_param, last - 1) \o " "
                             \o get_formatted_dates(primary_param.changes[last]) \o "."
               IN CASE primary_param.type = "Tax Credit" -> "This reform modifies the " \o primary_param.name \o tail
                    [] primary_param.type = "Tax Rate" -> "This reform sets the " \o primary_param.name \o tail
                    [] primary_param.type = "Benefit Amount" -> "This reform changes the " \o primary_param.name \o tail
                    [] primary_param.type = "Threshold" -> "This reform adjusts the " \o primary_param.name \o tail
                    [] OTHER -> "This reform changes the " \o primary_param.name \o " parameter" \o tail
          ELSE "This reform modifies one or more parameters of the federal tax and transfer system."

_generate_summary(r) ==
  IF r.parameters = <<>>
  THEN "This reform modifies federal tax and transfer policy parameters."
  ELSE LET primary_param == r.parameters[1]
       IN IF primary_param.changes # <<>>
          THEN LET change == primary_param.changes[1]
                   param_name == primary_param.name
                   value == get_formatted_value(primary_param, 0)
                   date_str == get_formatted_dates(change)
                   tail == " to " \o value \o " " \o date_str \o "."
               IN CASE primary_param.type = "Tax Credit" -> "This reform modifies the " \o param_name \o tail
                    [] primary_param.type = "Tax Rate" -> "This reform sets the " \o param_name \o tail
                    [] primary_param.type = "Benefit Amount" -> "This reform changes the " \o param_name \o tail
                    [] primary_param.type = "Threshold" -> "This reform adjusts the " \o param_name \o tail
                    [] OTHER -> "This reform changes the " \o param_name \o " parameter" \o tail
          ELSE "This reform modifies one or more parameters of the federal tax and transfer system."

\* the sentence of _generate_parameter_details for change i (0-based) of param
DetailSentence(param, i) ==
  LET value == get_formatted_value(param, i)
      date_str == get_formatted_dates(param.changes[i + 1])
      tail == " to " \o value \o " " \o date_str \o "."
  IN CASE param.type = "Tax Credit" -> "The " \o param.name \o " is set" \o tail
       [] param.type = "Tax Rate" -> "The " \o param.name \o " is changed" \o tail
       [] param.type = "Benefit Amount" -> "The " \o param.name \o " is adjusted" \o tail
       [] param.type = "Threshold" \/ param.type = "Eligibility Criteria" ->
            "The " \o param.name \o " is modified" \o tail
       [] OTHER -> "The " \o param.name \o " parameter is set" \o tail

\* the sentences of one parameter, in the order of its changes
ParamDetails(param) == [i \in 1..Len(param.changes) |-> DetailSentence(param, i - 1)]

RECURSIVE DetailsParts(_)
\* one line per parameter that has changes, in the order of the parameters
DetailsParts(parameters) ==
  IF parameters = <<>> THEN <<>>
  ELSE IF parameters[1].changes = <<>> THEN DetailsParts(Tail(parameters))
  ELSE <<JoinStr(ParamDetails(parameters[1]), " ")>> \o DetailsParts(Tail(parameters))

\* parameter details with a line for every parameter, also one without
\* changes
ParameterDetailsLinePerParameter(r) ==
  IF r.parameters = <<>> THEN ""
  ELSE "Details:\n"
         \o JoinStr([i \in 1..Len(r.parameters) |-> JoinStr(ParamDetails(r.parameters[i]), " ")], "\n")

\* parameter details without the test for an empty parameter list
ParameterDetailsUnguarded(r) == "Details:\n" \o JoinStr(DetailsParts(r.parameters), "\n")

_generate_parameter_details(r) ==
  IF r.parameters = <<>> THEN ""
  ELSE "Details:\n" \o JoinStr(DetailsParts(r.parameters), "\n")

\* set(param.agency for param in reform.parameters if param.agency)
Agencies(r) == {r.parameters[i].agency : i \in {j \in 1..Len(r.parameters) : r.parameters[j].agency # ""}}

\* the iteration orders a Python set of strings can have: any order of its
\* elements (string hashing is seeded per process)
SetOrders(S) == {f \in [1..Cardinality(S) -> S] : \A i, j \in 1..Cardinality(S) : i # j => f[i] # f[j]}

\* the years of the changes of one parameter (a year of 0 is not truthy)
ChangeYears(param) ==
  {get_year(param.changes[k]).n : k \in {j \in 1..Len(param.changes) : Truthy(get_year(param.changes[j]))}}

EffectiveYears(r) == UNION {ChangeYears(r.parameters[i]) : i \in 1..Len(r.parameters)}

RECURSIVE Sorted(_)
\* sorted(S) for a finite set of integers
Sorted(S) ==
  IF S = {} THEN <<>>
  ELSE LET m == CHOOSE x \in S : \A y \in S : x <= y
       IN <<m>> \o Sorted(S \ {m})

\* ", ".join(m.replace("_", " ").title() for m in metrics)
MetricsStr(metrics) == JoinStr([i \in 1..Len(metrics) |-> Title(ReplaceCh(metrics[i], "_", " "))], ", ")

\* implementation details that name the agency of every parameter
ImplementationAgencyPerParameter(r, agency_order) ==
  LET effective_years == EffectiveYears(r)
      sorted_years == Sorted(effective_years)
      years_str == JoinStr([i \in 1..Len(sorted_years) |-> NatToStr(sorted_years[i])], ", ")
      p1 == IF Agencies(r) # {}
            THEN <<"This reform would be implemented through "
                     \o JoinStr([i \in 1..Len(r.parameters) |-> r.parameters[i].agency], ", ") \o ".">>
            ELSE <<>>
      p2 == IF effective_years = {} THEN <<>>
            ELSE IF Cardinality(effective_years) = 1
            THEN <<"The reform would take effect in " \o years_str \o ".">>
            ELSE <<"The reform would be implemented across multiple years: " \o years_str \o ".">>
      p3 == IF Truthy(r.simulation_year)
            THEN <<"The policy impact was simulated for the year " \o StrOf(r.simulation_year) \o ".">>
            ELSE <<>>
      p4 == IF r.metrics # <<>>
            THEN <<"The simulation analyzed impacts on " \o MetricsStr(r.metrics) \o ".">>
            ELSE <<>>
  IN IF p1 \o p2 \o p3 \o p4 = <<>> THEN ""
     ELSE "Implementation:\n" \o JoinStr(p1 \o p2 \o p3 \o p4, "\n")

\* agency_order is the order in which the agency set is iterated
_generate_implementation_details(r, agency_order) ==
  LET agencies == Agencies(r)
      effective_years == EffectiveYears(r)
      sorted_years == Sorted(effective_years)
      years_str == JoinStr([i \in 1..Len(sorted_years) |-> NatToStr(sorted_years[i])], ", ")
      p1 == IF agencies # {}
            THEN <<"This reform would be implemented through " \o JoinStr(agency_order, ", ") \o ".">>
            ELSE <<>>
      p2 == IF effective_years = {} THEN <<>>
            ELSE IF Cardinality(effective_years) = 1
            THEN <<"The reform would take effect in " \o years_str \o ".">>
            ELSE <<"The reform would be implemented across multiple years: " \o years_str \o ".">>
      p3 == IF Truthy(r.simulation_year)
            THEN <<"The policy impact was simulated for the year " \o StrOf(r.simulation_year) \o ".">>
            ELSE <<>>
      p4 == IF r.metrics # <<>>
            THEN <<"The simulation analyzed impacts on " \o MetricsStr(r.metrics) \o ".">>
            ELSE <<>>
      details_parts == p1 \o p2 \o p3 \o p4
  IN IF details_parts = <<>> THEN ""
     ELSE "Implementation:\n" \o JoinStr(details_parts, "\n")

_generate_reform_description(r, agency_order) ==
  LET summary == _generate_summary(r)
      param_details == _generate_parameter_details(r)
      implementation == _generate_implementation_details(r, agency_order)
      description_parts ==
        <<"Reform to the " \o get_program_name(r)>>
        \o (IF summary # "" THEN <<summary>> ELSE <<>>)
        \o (IF param_details # "" THEN <<param_details>> ELSE <<>>)
        \o (IF implementation # "" THEN <<implementation>> ELSE <<>>)
  IN JoinStr(description_parts, "\n\n")

(***************************************************************************)
(* Regular-expression matching on source text.  Every operator follows     *)
(* the search of Python's re module for one pattern of the code: the       *)
(* leftmost start wins, a lazy ".*?" stops at the first position where the *)
(* rest of the pattern matches.  A match is [found, group].                *)
(***************************************************************************)
\* \s
IsSpaceCh(c) == c \in {" ", "\n", "\t", "\r"}

RECURSIVE SkipSpaces(_, _)
\* the position reached from p by a greedy \s*
SkipSpaces(s, p) == IF p <= Len(s) /\ IsSpaceCh(Ch(s, p)) THEN SkipSpaces(s, p + 1) ELSE p

\* the least element of a non-empty set of positions
Least(P) == CHOOSE p \in P : \A q \in P : p <= q

\* the positions of s, from p on, that hold the character c
PositionsOf(s, c, p) == {i \in p..Len(s) : Ch(s, i) = c}

\* the positions of s, from p on, that hold a brace
Braces(s, p) == PositionsOf(s, "{", p) \cup PositionsOf(s, "}", p)

\* s.strip()
Strip(s) ==
  LET kept == {i \in 1..Len(s) : ~IsSpaceCh(Ch(s, i))}
  IN IF kept = {} THEN ""
     ELSE SubSeq(s, Least(kept), CHOOSE i \in kept : \A j \in kept : j <= i)

RECURSIVE RemoveCh(_, _)
\* s.replace(c, ""), computed by halves
RemoveCh(s, c) ==
  IF Len(s) = 0 THEN ""
  ELSE IF Len(s) = 1 THEN (IF s = c THEN "" ELSE s)
  ELSE RemoveCh(SubSeq(s, 1, Len(s) \div 2), c) \o RemoveCh(SubSeq(s, Len(s) \div 2 + 1, Len(s)), c)

NoMatch == [found |-> FALSE, group |-> ""]

\* the match whose group is s[a..b]
Match(s, a, b) == [found |-> TRUE, group |-> SubSeq(s, a, b)]

CallName == "Reform.from_dict("

\* re.search(r'Reform\.from_dict\((.*?}),\s*country_id=', s, re.DOTALL)
SearchCallWithKeyword(s) ==
  LET KeywordAssignAt(p) == MatchAt(s, ",", p) /\ MatchAt(s, "country_id=", SkipSpaces(s, p + 1))
      Ends(i) == {j \in PositionsOf(s, "}", i + Len(CallName)) : KeywordAssignAt(j + 1)}
      Group(i) == Match(s, i + Len(CallName), Least(Ends(i)))
      starts == {i \in 1..Len(s) : MatchAt(s, CallName, i) /\ Ends(i) # {}}
  IN IF starts = {} THEN NoMatch ELSE Group(Least(starts))

\* re.search(r'Reform\.from_dict\((.*?)(?:,\s*country_id|\))', s, re.DOTALL)
SearchCall(s) ==
  LET KeywordAt(p) == MatchAt(s, ",", p) /\ MatchAt(s, "country_id", SkipSpaces(s, p + 1))
      Ends(i) == {j \in (i + Len(CallName))..Len(s) : KeywordAt(j) \/ Ch(s, j) = ")"}
      Group(i) == Match(s, i + Len(CallName), Least(Ends(i)) - 1)
      starts == {i \in 1..Len(s) : MatchAt(s, CallName, i) /\ Ends(i) # {}}
  IN IF starts = {} THEN NoMatch ELSE Group(Least(starts))

\* re.search(r'{(.*?)}', s, re.DOTALL): group is the whole match
SearchBraces(s) ==
  LET Group(i) == Match(s, i, Least(PositionsOf(s, "}", i + 1)))
      starts == {i \in PositionsOf(s, "{", 1) : PositionsOf(s, "}", i + 1) # {}}
  IN IF starts = {} THEN NoMatch ELSE Group(Least(starts))

\* "([^"]+)" at position p: the position of the closing quote, 0 when the
\* pattern does not match there
QuotedEnd(s, p) ==
  IF ~MatchAt(s, "\"", p) THEN 0
  ELSE LET q == Find(s, "\"", p + 1)
       IN IF q > p + 1 THEN q ELSE 0

(***************************************************************************)
(* ast.literal_eval on the literals of the explored source texts: nested   *)
(* dict displays with double-quoted string keys and int, float, string or  *)
(* dict values.  A parse is [ok, val, pos]: pos is the position after the  *)
(* value; ok is FALSE where Python raises SyntaxError or ValueError (a     *)
(* name, a call, a missing comma or brace).                                *)
(***************************************************************************)
ParseFail == [ok |-> FALSE, val |-> PyNone, pos |-> 0]

Parsed(val, pos) == [ok |-> TRUE, val |-> val, pos |-> pos]

RECURSIVE DigitsEnd(_, _)
\* the position after the digits that start at p
DigitsEnd(s, p) == IF p <= Len(s) /\ IsDigitCh(Ch(s, p)) THEN DigitsEnd(s, p + 1) ELSE p

\* float(text) for digits with one ".", in thousandths (at most three
\* fraction digits are explored)
DecimalToMilli(text) ==
  LET parts == Split(text, ".")
      frac == SubSeq(parts[2] \o "000", 1, 3)
  IN 1000 * DigitsToInt(parts[1]) + DigitsToInt(frac)

\* a number token at p: digits, or digits "." digits; a non-zero integer
\* with a leading zero is a syntax error
ParseNumber(s, p) ==
  LET Float(e) == Parsed(PyFloat(DecimalToMilli(SubSeq(s, p, e - 1))), e)
      Token(e) ==
        IF e = p THEN ParseFail
        ELSE IF MatchAt(s, ".", e) /\ DigitsEnd(s, e + 1) > e + 1 THEN Float(DigitsEnd(s, e + 1))
        ELSE IF e - p > 1 /\ Ch(s, p) = "0" /\ DigitsToInt(SubSeq(s, p, e - 1)) # 0 THEN ParseFail
        ELSE Parsed(PyInt(DigitsToInt(SubSeq(s, p, e - 1))), e)
  IN Token(DigitsEnd(s, p))

\* a double-quoted string at p (no escapes are explored)
ParseString(s, p) ==
  LET String(q) == IF q = 0 THEN ParseFail ELSE Parsed(SubSeq(s, p + 1, q - 1), q + 1)
  IN IF MatchAt(s, "\"", p) THEN String(Find(s, "\"", p + 1)) ELSE ParseFail

RECURSIVE ParseValue(_, _)
RECURSIVE ParseItems(_, _, _)

\* the items of a dict display from p on, acc the dict built so far
ParseItems(s, p, acc) ==
  LET AfterItem(after, dict) ==
        IF MatchAt(s, ",", after) THEN ParseItems(s, after + 1, dict)
        ELSE IF MatchAt(s, "}", after) THEN Parsed(dict, after + 1)
        ELSE ParseFail
      AfterValue(k, item) ==
        IF item.ok THEN AfterItem(SkipSpaces(s, item.pos), DictSet(acc, k, item.val)) ELSE ParseFail
      AfterColon(key, colon) ==
        IF MatchAt(s, ":", colon) THEN AfterValue(key.val, ParseValue(s, colon + 1)) ELSE ParseFail
      AfterKey(key) == IF key.ok THEN AfterColon(key, SkipSpaces(s, key.pos)) ELSE ParseFail
      Items(a) == IF MatchAt(s, "}", a) THEN Parsed(acc, a + 1) ELSE AfterKey(ParseString(s, a))
  IN Items(SkipSpaces(s, p))

\* a value at p, after blanks
ParseValue(s, p) ==
  LET StringValue(str) == IF str.ok THEN Parsed(PyStr(str.val), str.pos) ELSE ParseFail
      Value(a) ==
        IF MatchAt(s, "{", a) THEN ParseItems(s, a + 1, <<>>)
        ELSE IF MatchAt(s, "\"", a) THEN StringValue(ParseString(s, a))
        ELSE ParseNumber(s, a)
  IN Value(SkipSpaces(s, p))

\* ast.literal_eval(s): the whole text must be one value
literal_eval(s) ==
  LET Whole(parsed) == IF parsed.ok /\ SkipSpaces(s, parsed.pos) = Len(s) + 1 THEN parsed ELSE ParseFail
  IN Whole(ParseValue(s, 1))

(***************************************************************************)
(* The pattern-scan fallback of utils/policy_parser.py.                    *)
(***************************************************************************)
RECURSIVE BlockEnd(_, _)
\* (?:[^{}]|{[^{}]*})*} from position p: the position of the closing
\* brace, 0 when the pattern does not match.  A closing brace ends the
\* match, an opening one must be closed by the next brace
BlockEnd(s, p) ==
  LET Inner(b) == IF Ch(s, b) = "}" THEN BlockEnd(s, b + 1) ELSE 0
      From(b) ==
        IF Ch(s, b) = "}" THEN b
        ELSE IF Braces(s, b + 1) = {} THEN 0
        ELSE Inner(Least(Braces(s, b + 1)))
  IN IF Braces(s, p) = {} THEN 0 ELSE From(Least(Braces(s, p)))

\* "([^"]+)":{(?:[^{}]|{[^{}]*})*} at position p: the position of the
\* last character matched, 0 when there is no match at p
KeyBlockEnd(s, p) ==
  LET Block(q) == IF q # 0 /\ MatchAt(s, ":{", q + 1) THEN BlockEnd(s, q + 3) ELSE 0
  IN Block(QuotedEnd(s, p))

RECURSIVE FindAllKeyBlocks(_, _)
\* re.findall(r'"([^"]+)":{(?:[^{}]|{[^{}]*})*}', s) from position p on
FindAllKeyBlocks(s, p) ==
  LET From(i) == <<SubSeq(s, i + 1, QuotedEnd(s, i) - 1)>> \o FindAllKeyBlocks(s, KeyBlockEnd(s, i) + 1)
      starts == {i \in p..Len(s) : KeyBlockEnd(s, i) # 0}
  IN IF starts = {} THEN <<>> ELSE From(Least(starts))

RECURSIVE KeyPatternEnd(_, _, _, _)
\* the key, interpolated into a pattern unescaped, matched at position p of
\* s from its character a on: "." matches any character, "[...]" one
\* character of the set, any other explored character itself.  The
\* position after the match, 0 when there is none
KeyPatternEnd(key, a, s, p) ==
  LET Class(close) ==
        IF close # 0 /\ Contains(SubSeq(key, a + 1, close - 1), Ch(s, p))
        THEN KeyPatternEnd(key, close + 1, s, p + 1)
        ELSE 0
  IN IF a > Len(key) THEN p
     ELSE IF p > Len(s) THEN 0
     ELSE IF Ch(key, a) = "." THEN KeyPatternEnd(key, a + 1, s, p + 1)
     ELSE IF Ch(key, a) = "[" THEN Class(Find(key, "]", a + 2))
     ELSE IF Ch(key, a) = Ch(s, p) THEN KeyPatternEnd(key, a + 1, s, p + 1)
     ELSE 0

\* re.search(f'"{key}":({{.*?}})', s, re.DOTALL): group is group(1)
SearchKeyValue(key, s) ==
  LET Open(i, e) == IF MatchAt(s, "\"", i) /\ e # 0 /\ MatchAt(s, "\":{", e) THEN e + 2 ELSE 0
      ValueStart(i) == Open(i, KeyPatternEnd(key, 1, s, i + 1))
      Closes(v) == IF v = 0 THEN {} ELSE PositionsOf(s, "}", v + 1)
      Group(v) == Match(s, v, Least(Closes(v)))
      starts == {i \in 1..Len(s) : Closes(ValueStart(i)) # {}}
  IN IF starts = {} THEN NoMatch ELSE Group(ValueStart(Least(starts)))

\* the conversion of one value token in _safe_eval_dict
CoerceToken(value) ==
  LET ReplaceFirst(text, dot) ==
        IF dot = 0 THEN text ELSE SubSeq(text, 1, dot - 1) \o SubSeq(text, dot + 1, Len(text))
      Coerce(clean_value) ==
        IF IsDigit(clean_value) THEN PyInt(DigitsToInt(clean_value))
        ELSE IF IsDigit(ReplaceFirst(clean_value, Find(clean_value, ".", 1)))
        THEN PyFloat(DecimalToMilli(clean_value))
        ELSE PyStr(clean_value)
  IN Coerce(Strip(value))

RECURSIVE DateValues(_, _, _)
\* the loop over re.findall(r'"([^"]+)":(.*?)(?:,|})', value_str), from
\* position p on, date_values the dict built so far
DateValues(s, p, date_values) ==
  LET StopsAfter(q) ==
        IF q # 0 /\ MatchAt(s, ":", q + 1)
        THEN PositionsOf(s, ",", q + 2) \cup PositionsOf(s, "}", q + 2)
        ELSE {}
      Stops(i) == StopsAfter(QuotedEnd(s, i))
      Pair(i, q, stop) ==
        DateValues(s, stop + 1,
                   DictSet(date_values, SubSeq(s, i + 1, q - 1), CoerceToken(SubSeq(s, q + 2, stop - 1))))
      From(i) == Pair(i, QuotedEnd(s, i), Least(Stops(i)))
      starts == {i \in p..Len(s) : Stops(i) # {}}
  IN IF starts = {} THEN date_values ELSE From(Least(starts))

RECURSIVE SafeEvalKeys(_, _, _)
\* the loop of _safe_eval_dict over the matched keys
SafeEvalKeys(cleaned, matches, result) ==
  LET Store(key, value_match) ==
        IF value_match.found THEN DictSet(result, key, DateValues(value_match.group, 1, <<>>)) ELSE result
  IN IF matches = <<>> THEN result
     ELSE SafeEvalKeys(cleaned, Tail(matches), Store(matches[1], SearchKeyValue(matches[1], cleaned)))

_safe_eval_dict(dict_str) ==
  LET Eval(cleaned) == SafeEvalKeys(cleaned, FindAllKeyBlocks(cleaned, 1), <<>>)
  IN Eval(RemoveCh(RemoveCh(dict_str, "\n"), " "))

(***************************************************************************)
(* The pattern-scan fallback of policy_parser.py.                          *)
(***************************************************************************)
\* "([^"]+)":\s*{([^{}]+)}\s*,? at position p: the position of the closing
\* brace, 0 when there is no match at p
ParamBlockEnd(s, p) ==
  LET Close(open, b) == IF Ch(s, b) = "}" /\ b > open + 1 THEN b ELSE 0
      Block(open) ==
        IF MatchAt(s, "{", open) /\ Braces(s, open + 1) # {}
        THEN Close(open, Least(Braces(s, open + 1)))
        ELSE 0
      Value(q) == IF q # 0 /\ MatchAt(s, ":", q + 1) THEN Block(SkipSpaces(s, q + 2)) ELSE 0
  IN Value(QuotedEnd(s, p))

\* re.search(r'"([^"]+)":\s*(\d+)', s): [found, date_range, value]
SearchFirstInteger(s) ==
  LET AfterColon(q) == IF q # 0 /\ MatchAt(s, ":", q + 1) THEN SkipSpaces(s, q + 2) ELSE 0
      DigitsStart(i) == AfterColon(QuotedEnd(s, i))
      HasDigits(d) == d # 0 /\ DigitsEnd(s, d) > d
      Group(i, d) ==
        [found |-> TRUE,
         date_range |-> SubSeq(s, i + 1, QuotedEnd(s, i) - 1),
         value |-> DigitsToInt(SubSeq(s, d, DigitsEnd(s, d) - 1))]
      From(i) == Group(i, DigitsStart(i))
      starts == {i \in 1..Len(s) : HasDigits(DigitsStart(i))}
  IN IF starts = {} THEN [found |-> FALSE, date_range |-> "", value |-> 0] ELSE From(Least(starts))

RECURSIVE ScanParamBlocks(_, _, _)
\* the loop over re.findall(r'"([^"]+)":\s*{([^{}]+)}\s*,?', s), from
\* position p on, dict the mapping built so far
ScanParamBlocks(s, p, dict) ==
  LET Store(param_path, value_match) ==
        IF value_match.found
        THEN DictSet(dict, param_path, << <<value_match.date_range, PyInt(value_match.value)>> >>)
        ELSE dict
      AfterComma(a) == IF MatchAt(s, ",", a) THEN a + 1 ELSE a
      Block(i, q, close) ==
        ScanParamBlocks(s, AfterComma(SkipSpaces(s, close + 1)),
                        Store(SubSeq(s, i + 1, q - 1),
                              SearchFirstInteger(SubSeq(s, SkipSpaces(s, q + 2) + 1, close - 1))))
      From(i) == Block(i, QuotedEnd(s, i), ParamBlockEnd(s, i))
      starts == {i \in p..Len(s) : ParamBlockEnd(s, i) # 0}
  IN IF starts = {} THEN dict ELSE From(Least(starts))

(***************************************************************************)
(* Impact information and the two extractors.                              *)
(***************************************************************************)
\* a character of \w
IsWordCh(c) == IsDigitCh(c) \/ IsLowerCh(c) \/ IsUpperCh(c) \/ c = "_"

RECURSIVE WordEnd(_, _)
\* the position after the \w characters that start at p
WordEnd(s, p) == IF p <= Len(s) /\ IsWordCh(Ch(s, p)) THEN WordEnd(s, p + 1) ELSE p

\* calculate\("([^"]+)",\s*period=(\d+)\) at position p: the position of
\* the closing parenthesis, 0 when there is no match at p
CalculateEnd(s, p) ==
  LET Close(e) == IF MatchAt(s, ")", e) THEN e ELSE 0
      Number(digits) == IF DigitsEnd(s, digits) > digits THEN Close(DigitsEnd(s, digits)) ELSE 0
      Period(period) == IF MatchAt(s, "period=", period) THEN Number(period + Len("period=")) ELSE 0
      Metric(q) == IF q # 0 /\ MatchAt(s, ",", q + 1) THEN Period(SkipSpaces(s, q + 2)) ELSE 0
  IN IF MatchAt(s, "calculate(", p) THEN Metric(QuotedEnd(s, p + Len("calculate("))) ELSE 0

RECURSIVE FindAllCalculate(_, _)
\* re.findall(r'calculate\("([^"]+)",\s*period=(\d+)\)', s) from position
\* p on: the sequence of <<metric, period>>
FindAllCalculate(s, p) ==
  LET Groups(open, q, close) ==
        << <<SubSeq(s, open + 1, q - 1), SubSeq(s, SkipSpaces(s, q + 2) + Len("period="), close - 1)>> >>
          \o FindAllCalculate(s, close + 1)
      From(i) == Groups(i + Len("calculate("), QuotedEnd(s, i + Len("calculate(")), CalculateEnd(s, i))
      starts == {i \in p..Len(s) : CalculateEnd(s, i) # 0}
  IN IF starts = {} THEN <<>> ELSE From(Least(starts))

\* re.search(r'(\w+)\s*=\s*(\w+)\s*-\s*(\w+)', s): group is group(1)
SearchDifference(s) ==
  LET IsWordAt(w) == w # 0 /\ WordEnd(s, w) > w
      Operand(sign, c) == IF MatchAt(s, c, sign) THEN SkipSpaces(s, sign + 1) ELSE 0
      AfterSign(e, c) == Operand(SkipSpaces(s, e), c)
      IsSubtractionAt(w) == IsWordAt(w) /\ IsWordAt(AfterSign(WordEnd(s, w), "-"))
      Group(i) == Match(s, i, WordEnd(s, i) - 1)
      starts == {i \in 1..Len(s) : IsWordAt(i) /\ IsSubtractionAt(AfterSign(WordEnd(s, i), "="))}
  IN IF starts = {} THEN NoMatch ELSE Group(Least(starts))

\* the record of the keys found; the empty record stands for None
_extract_impact_info(policy_code) ==
  LET Metrics(calc_matches) ==
        IF calc_matches # <<>>
        THEN [metrics |-> [i \in 1..Len(calc_matches) |-> calc_matches[i][1]],
              simulation_year |-> PyInt(DigitsToInt(calc_matches[1][2]))]
        ELSE <<>>
      Difference(diff_match) ==
        IF diff_match.found THEN [difference_variable |-> diff_match.group] ELSE <<>>
  IN Metrics(FindAllCalculate(policy_code, 1)) @@ Difference(SearchDifference(policy_code))

Failed == [ok |-> FALSE]

\* parse_policy_json of utils/policy_parser.py: ok is FALSE where it raises
\* PolicyParseError; reform_dict is the local of that name
parse_policy_json(policy_code) ==
  LET Fallback(dict_match) ==
        IF dict_match.found THEN [ok |-> TRUE, reform_dict |-> _safe_eval_dict(dict_match.group)] ELSE Failed
      Literal(reform_dict_str, strict) ==
        IF strict.ok THEN [ok |-> TRUE, reform_dict |-> strict.val]
        ELSE Fallback(SearchBraces(reform_dict_str))
      Call(reform_dict_match) ==
        IF reform_dict_match.found
        THEN Literal(reform_dict_match.group, literal_eval(reform_dict_match.group))
        ELSE Failed
      Process(evaluated) ==
        IF evaluated.ok
        THEN [ok |-> TRUE,
              reform_dict |-> evaluated.reform_dict,
              processed_policy |->
                _extract_impact_info(policy_code) @@ _process_reform_dict(evaluated.reform_dict)]
        ELSE Failed
  IN Process(Call(SearchCallWithKeyword(policy_code)))

\* extract_reform_dict_from_code of policy_parser.py: ok is FALSE where it
\* raises ValueError
extract_reform_dict_from_code(code_string) ==
  LET Fallback(scanned) == IF scanned # <<>> THEN [ok |-> TRUE, reform_dict |-> scanned] ELSE Failed
      Literal(reform_dict_str, strict) ==
        IF strict.ok THEN [ok |-> TRUE, reform_dict |-> strict.val]
        ELSE Fallback(ScanParamBlocks(reform_dict_str, 1, <<>>))
      Stripped(reform_dict_str) == Literal(reform_dict_str, literal_eval(reform_dict_str))
      Call(reform_dict_match) ==
        IF reform_dict_match.found THEN Stripped(Strip(reform_dict_match.group)) ELSE Failed
  IN Call(SearchCall(code_string))

(***************************************************************************)
(* Inputs of the normalisation and rendering pipeline.                     *)
(***************************************************************************)
\* a variable that holds nothing yet
Absent == [absent |-> TRUE]

\* the sequences of at most n distinct elements of S
DistinctSeqs(S, n) ==
  UNION {{f \in [1..k -> S] : \A i, j \in 1..k : i # j => f[i] # f[j]} : k \in 0..n}

StructPaths ==
  {"gov.irs.credits.ctc.amount.base[0].amount", "gov.hhs.tanf.benefit_rate", "gov.usda.snap.income_limit"}

DateKeys ==
  {"2025-01-01.2100-12-31", "2025-01-01.2030-12-31", "2026-01-01.2030-12-31", "foo.bar", "permanent", ""}

\* the value mappings over the date-range keys K: at most MaxChanges keys,
\* the i-th with the value 2500 * i
ValueDictsOver(K) ==
  {[i \in 1..Len(keys) |-> <<keys[i], PyInt(2500 * i)>>] : keys \in DistinctSeqs(K, MaxChanges)}

\* reform mappings of one parameter, over every order of the date-range keys
SingleMaps == {<< <<path, dict>> >> : path \in StructPaths, dict \in ValueDictsOver(DateKeys)}

\* reform mappings of at most MaxParams parameters
MultiMaps ==
  UNION {{[i \in 1..Len(paths) |-> <<paths[i], dicts[i]>>] :
            dicts \in [1..Len(paths) -> ValueDictsOver({"2026-01-01.2030-12-31", "permanent"})]} :
           paths \in DistinctSeqs(StructPaths, MaxParams)}

FormatPaths ==
  {"gov.irs.income.rate", "gov.irs.credits.ctc.amount", "gov.hhs.tanf.benefit_rate",
   "gov.irs.amount.rate", "gov.usda.snap.income_limit", "gov.ssa.benefit.cap", "gov.irs.CREDIT.RATE"}

Values ==
  {PyInt(2500), PyInt(7), PyInt(0), PyInt(1), PyInt(-5), PyInt(1234567),
   PyFloat(70), PyFloat(999), PyFloat(1000), PyFloat(1500), PyFloat(1250), PyFloat(-70),
   PyFloat(2500500), PyFloat(1234560), PyStr("x"), PyStr("7")}

\* reform mappings of one parameter with one dated change
ValueMaps ==
  {<< <<path, << <<"2025-01-01.2100-12-31", v>> >> >> >> : path \in FormatPaths, v \in Values}

ReformMaps == SingleMaps \cup MultiMaps \cup ValueMaps

Types ==
  {"Tax Credit", "Tax Deduction", "Benefit Amount", "Tax Rate", "Threshold",
   "Eligibility Criteria", "Policy Parameter"}

\* change records a caller of generate_policy_text can hand in
DirectChanges ==
  UNION {{[value |-> v],
          [start_date |-> PyNone, end_date |-> PyNone, value |-> v],
          [date_range |-> PyStr("until repealed"), value |-> v],
          [start_date |-> PyStr("2025-01-01"), end_date |-> PyStr("2030-12-31"),
           date_range |-> PyStr("permanently"), value |-> v]} :
           v \in {PyInt(7), PyFloat(70), PyStr("x")}}

\* policy information handed to generate_policy_text directly
DirectInfos ==
  {[parameters |-> <<[path |-> path, name |-> "Cap", agency |-> "Treasury", type |-> type,
                      changes |-> <<c>>]>>] :
     path \in {"gov.x.cap", "gov.x.rate", "gov.x.amount"}, type \in Types, c \in DirectChanges}
  \cup {[parameters |-> <<>>],
        [country |-> "United States"],
        [parameters |-> <<[path |-> "gov.x.cap"]>>],
        [parameters |-> <<>>, simulation_year |-> PyInt(2026), metrics |-> <<"household_net_income">>],
        [parameters |->
           <<[path |-> "gov.x.cap", name |-> "Cap", agency |-> "Treasury", type |-> "Threshold",
              changes |-> <<[start_date |-> PyStr("2027-01-01"), end_date |-> PyStr("2100-12-31"),
                             value |-> PyInt(7)]>>],
             [path |-> "gov.x.snap.rate", name |-> "Rate", agency |-> "Treasury", type |-> "Tax Rate",
              changes |-> <<[start_date |-> PyStr("2025-01-01"), end_date |-> PyStr("2030-12-31"),
                             value |-> PyFloat(70)],
                            [date_range |-> PyStr("until repealed"), value |-> PyInt(7)]>>]>>]}
  \cup {[parameters |-> <<[path |-> path, type |-> type]>> \o rest] :
          path \in {"gov.x.cap", "gov.usda.SNAP.limit", "gov.hhs.tanf.snap.x", "gov.hud.Section8.building",
                    "gov.irs.credits.ctc_amount", "gov.states.ui.max", "gov.hhs.medicaid", "eitc",
                    "gov.ssa.ssi.amount", "gov.hud.housing.cap"},
          type \in {"Tax Rate", ""},
          rest \in {<<>>, <<[path |-> "gov.irs.credits.ctc.amount", type |-> "Tax Credit"]>>}}

(***************************************************************************)
(* The normalisation and rendering pipeline as a state machine.            *)
(***************************************************************************)
Init ==
  /\ code = ""
  /\ literal = <<>>
  /\ error = ""
  /\ reform = Absent
  /\ description = ""
  /\ \/ entry = "mapping" /\ pc = "raw" /\ reform_dict \in ReformMaps /\ policy_info = Absent
     \/ entry = "info" /\ pc = "parsed" /\ reform_dict = <<>> /\ policy_info \in DirectInfos
  /\ package = Absent
  /\ param_info = Absent
  /\ reforms_info = <<>>
  /\ collaborator = Absent
  /\ requests = <<>>
  /\ bill_text = Absent

\* _process_reform_dict applied to a reform mapping
ProcessReformDict ==
  /\ pc = "raw"
  /\ policy_info' = _process_reform_dict(reform_dict)
  /\ pc' = "parsed"
  /\ UNCHANGED <<entry, code, literal, reform_dict, reform, description, error, package, param_info, reforms_info,
               collaborator, requests, bill_text>>

\* generate_policy_text applied to the policy information
GeneratePolicyText ==
  /\ pc = "parsed"
  /\ LET r == _dict_to_reform_object(policy_info)
     IN \E agency_order \in SetOrders(Agencies(r)) :
          /\ reform' = r
          /\ description' = _generate_reform_description(r, agency_order)
  /\ pc' = "done"
  /\ UNCHANGED <<entry, code, literal, reform_dict, policy_info, error, package, param_info, reforms_info,
               collaborator, requests, bill_text>>

Next == ProcessReformDict \/ GeneratePolicyText

Spec == Init /\ [][Next]_vars

(***************************************************************************)
(* Source texts handed to the extractors.  A text is written from a reform *)
(* literal, a sequence of <<key, pairs>> blocks whose pairs are            *)
(* <<date-range key, value token>>, and a shape.                           *)
(***************************************************************************)
SourceKeys == <<"gov.irs.rate", "gov.irs.ctc.base[0].amount", "gov.hhs.cap", "gov.usda.limit">>

\* value tokens: an integer, a decimal, a string, and a name, which the
\* strict parse rejects
Tokens == <<"2500", "0.07", "\"x\"", "x">>

\* the i-th date-range key of a block
SourceDateKey(i) == NatToStr(2024 + i) \o "-01-01.2100-12-31"

\* the pairs of a block: n pairs, the tokens taken in turn from row on
SourcePairs(n, row) == [i \in 1..n |-> <<SourceDateKey(i), Tokens[((row + i - 2) % Len(Tokens)) + 1]>>]

\* reform literals of at most MaxParams blocks, the first of at most
\* MaxChanges pairs, the others of one
SourceLiterals ==
  UNION {{[j \in 1..nb |->
             <<SourceKeys[((first + j - 2) % Len(SourceKeys)) + 1],
               IF j = 1 THEN SourcePairs(n, row) ELSE SourcePairs(1, row + j)>>] :
            first \in 1..2, n \in 1..MaxChanges, row \in 1..Len(Tokens)} :
           nb \in 1..MaxParams}

\* the shapes of a text: the call that opens it, the argument that closes
\* it, whether blocks are separated by a comma, whether the literal is
\* spread over lines, and the simulation code after it
Epilogue == "\ny = sim.calculate(\"household_net_income\", period=2026)\ndiff = y - z"

Shapes ==
  {[head |-> "reform = Reform.from_dict(", tail |-> ", country_id=\"us\")", comma |-> c,
    lines |-> FALSE, epilogue |-> ""] : c \in BOOLEAN}
  \cup {[head |-> "reform = Reform.from_dict(", tail |-> ", country_id=\"us\")", comma |-> TRUE,
         lines |-> TRUE, epilogue |-> ""],
        [head |-> "reform = Reform.from_dict(", tail |-> ", country_id=\"us\")", comma |-> TRUE,
         lines |-> FALSE, epilogue |-> Epilogue],
        [head |-> "reform = Reform.from_dict(", tail |-> ")", comma |-> TRUE,
         lines |-> FALSE, epilogue |-> ""],
        [head |-> "reform = dict(", tail |-> ", country_id=\"us\")", comma |-> TRUE,
         lines |-> FALSE, epilogue |-> ""]}

\* the text of one block
BlockText(block, shape) ==
  LET pairs == [i \in 1..Len(block[2]) |-> "\"" \o block[2][i][1] \o "\": " \o block[2][i][2]]
  IN "\"" \o block[1] \o "\": {"
       \o (IF shape.lines THEN "\n    " \o JoinStr(pairs, ",\n    ") \o "\n  " ELSE JoinStr(pairs, ", "))
       \o "}"

\* the text of a reform literal
LiteralText(blocks, shape) ==
  LET texts == [j \in 1..Len(blocks) |-> BlockText(blocks[j], shape)]
      sep == (IF shape.comma THEN "," ELSE "") \o (IF shape.lines THEN "\n  " ELSE " ")
  IN IF shape.lines THEN "{\n  " \o JoinStr(texts, sep) \o "\n}" ELSE "{" \o JoinStr(texts, sep) \o "}"

SourceText(blocks, shape) == shape.head \o LiteralText(blocks, shape) \o shape.tail \o shape.epilogue

(***************************************************************************)
(* The extractors as a state machine: one of the two is applied to a       *)
(* source text.                                                            *)
(***************************************************************************)
InitExtract ==
  /\ entry \in {"parse_policy_json", "extract_reform_dict_from_code"}
  /\ pc = "source"
  /\ \E blocks \in SourceLiterals, shape \in Shapes :
       /\ literal = blocks
       /\ code = SourceText(blocks, shape)
  /\ reform_dict = <<>>
  /\ policy_info = Absent
  /\ reform = Absent
  /\ description = ""
  /\ error = ""
  /\ package = Absent
  /\ param_info = Absent
  /\ reforms_info = <<>>
  /\ collaborator = Absent
  /\ requests = <<>>
  /\ bill_text = Absent

\* parse_policy_json applied to the source text
ParsePolicyJson ==
  /\ pc = "source"
  /\ entry = "parse_policy_json"
  /\ \E result \in {parse_policy_json(code)} :
       IF result.ok
       THEN /\ reform_dict' = result.reform_dict
            /\ policy_info' = result.processed_policy
            /\ error' = ""
            /\ pc' = "parsed"
       ELSE /\ error' = "PolicyParseError"
            /\ pc' = "failed"
            /\ UNCHANGED <<reform_dict, policy_info>>
  /\ UNCHANGED <<entry, code, literal, reform, description, package, param_info, reforms_info,
               collaborator, requests, bill_text>>

\* extract_reform_dict_from_code applied to the source text
ExtractReformDictFromCode ==
  /\ pc = "source"
  /\ entry = "extract_reform_dict_from_code"
  /\ \E result \in {extract_reform_dict_from_code(code)} :
       IF result.ok
       THEN /\ reform_dict' = result.reform_dict
            /\ error' = ""
            /\ pc' = "extracted"
       ELSE /\ error' = "ValueError"
            /\ pc' = "failed"
            /\ UNCHANGED reform_dict
  /\ UNCHANGED <<entry, code, literal, policy_info, reform, description, package, param_info, reforms_info,
               collaborator, requests, bill_text>>

NextExtract == ParsePolicyJson \/ ExtractReformDictFromCode

SpecExtract == InitExtract /\ [][NextExtract]_vars

(***************************************************************************)
(* Path analysis as a state machine: _process_reform_dict is applied to a  *)
(* reform mapping of one parameter whose path is drawn from the paths      *)
(* below and whose value mapping is empty.                                 *)
(***************************************************************************)
PathRoots == {"gov", "GOV", "state"}

PathAgencies == {"irs", "hhs", "usda", "dol", "ssi", "Irs", "ed", "ed[1]"}

PathLeaves ==
  {"credit_amount", "ctc", "deduction_rate", "amount_rate", "rate_limit", "threshold", "income_limit",
   "eligibility", "ELIGIBILITY_Threshold", "Deduction", "phase_out.rate", "cap", "base[0].amount",
   "x[1]", "[0]", "[0]x", ""}

AnalysedPaths ==
  {JoinStr(<<root, agency, leaf>>, ".") : root \in PathRoots, agency \in PathAgencies, leaf \in PathLeaves}
  \cup {JoinStr(<<root, agency>>, ".") : root \in PathRoots, agency \in PathAgencies}
  \cup {"", "gov", "rate", "[0]", "x[0]", "earned_income", "gov.irs.credits.ctc.amount.base[0].amount"}

InitPath ==
  /\ entry = "path"
  /\ pc = "raw"
  /\ \E path \in AnalysedPaths : reform_dict = << <<path, <<>>>> >>
  /\ policy_info = Absent
  /\ code = ""
  /\ literal = <<>>
  /\ error = ""
  /\ reform = Absent
  /\ description = ""
  /\ package = Absent
  /\ param_info = Absent
  /\ reforms_info = <<>>
  /\ collaborator = Absent
  /\ requests = <<>>
  /\ bill_text = Absent

NextPath == ProcessReformDict

SpecPath == InitPath /\ [][NextPath]_vars

(***************************************************************************)
(* Metadata lookup (policy_parser.py).  The installed parameter package is *)
(* outside the program: package says whether it can be imported and, for   *)
(* each parameter file the call opens, what opening and loading it gives.  *)
(* A loaded document is a tagged value: a mapping [t |-> "dict", d |-> r], *)
(* a sequence [t |-> "list"], a scalar or None (an empty file).            *)
(***************************************************************************)
\* the parameter file of a path: the index-and-field suffix
\* \[\d+\]\.[\w]+$ is cut from the path and "." becomes "/" (the paths
\* explored hold no newline, before which $ would match too)
ParameterFile(parameter_path) ==
  LET Suffixes(s) ==
        {i \in 1..Len(s) :
           /\ Ch(s, i) = "["
           /\ LET j == DigitsEnd(s, i + 1)
              IN /\ j > i + 1
                 /\ MatchAt(s, "].", j)
                 /\ j + 2 <= Len(s)
                 /\ WordEnd(s, j + 2) = Len(s) + 1}
      BasePath(s, cuts) == IF cuts = {} THEN s ELSE SubSeq(s, 1, Least(cuts) - 1)
  IN ReplaceCh(BasePath(parameter_path, Suffixes(parameter_path)), ".", "/") \o ".yaml"

\* get_parameter_info: the loaded document, whatever it is, and the stub
\* record when importing, opening or loading raised
get_parameter_info(parameter_path, pkg) ==
  LET stub ==
        [t |-> "dict",
         d |-> [description |-> "Parameter at " \o parameter_path,
                metadata |-> [t |-> "dict", d |-> [reference |-> <<>>]]]]
      Load(outcome) == IF outcome.kind = "loaded" THEN outcome.data ELSE stub
  IN IF ~pkg.installed THEN stub ELSE Load(pkg.files[ParameterFile(parameter_path)])

RECURSIVE parse_policy_reform(_, _)
\* parse_policy_reform: one record per change, parameters outer and changes
\* inner; the exception of the first statement that raises ends the call
parse_policy_reform(dict, pkg) ==
  LET Raised(name) == [raised |-> name, reforms_info |-> <<>>]
      HasGet(v) == v.t = "dict"
      Name(last) == IF Contains(last, "[") THEN Split(last, "[")[1] ELSE last
      Area(path_parts) ==
        IF Len(path_parts) >= 3 THEN JoinStr(SubSeq(path_parts, 1, 3), ".") ELSE path_parts[1]
      Entry(param_path, path_parts, info, change, dates) ==
        IF Len(dates) # 2 THEN Raised("ValueError")
        ELSE IF ~HasGet(info) THEN Raised("AttributeError")
        ELSE IF ~HasGet(Get(info.d, "metadata", [t |-> "dict", d |-> <<>>])) THEN Raised("AttributeError")
        ELSE [raised |-> "",
              reforms_info |->
                << [parameter |-> param_path,
                    name |-> Name(path_parts[Len(path_parts)]),
                    policy_area |-> Area(path_parts),
                    description |-> Get(info.d, "description", ""),
                    references |-> Get(Get(info.d, "metadata", [t |-> "dict", d |-> <<>>]).d, "reference", <<>>),
                    start_date |-> dates[1],
                    end_date |-> dates[2],
                    new_value |-> change[2]] >>]
      Then(first, rest) ==
        IF first.raised # "" THEN first
        ELSE IF rest.raised # "" THEN rest
        ELSE [raised |-> "", reforms_info |-> first.reforms_info \o rest.reforms_info]
      RECURSIVE Changes(_, _, _, _)
      Changes(param_path, path_parts, info, changes) ==
        IF changes = <<>> THEN [raised |-> "", reforms_info |-> <<>>]
        ELSE Then(Entry(param_path, path_parts, info, changes[1], Split(changes[1][1], ".")),
                  Changes(param_path, path_parts, info, Tail(changes)))
  IN IF dict = <<>> THEN [raised |-> "", reforms_info |-> <<>>]
     ELSE Then(Changes(dict[1][1], Split(dict[1][1], "."), get_parameter_info(dict[1][1], pkg), dict[1][2]),
               parse_policy_reform(Tail(dict), pkg))

(***************************************************************************)
(* The state machine of the metadata lookup.                               *)
(***************************************************************************)
LookupPaths ==
  {"gov.irs.credits.ctc.amount.base[0].amount", "gov.irs.credits.ctc.amount.base[1].amount",
   "gov.hhs.tanf.benefit_rate", "gov.irs.base[0]", "gov.x[0].y[12].z_1", "gov.x[a].y", "rate", ""}

\* the states of the parameter package for the given parameter files: not
\* installed, or installed with each file failing with one of the
\* exceptions or loaded as one of the documents
Packages(file_names, exceptions, documents) ==
  LET outcomes ==
        {[kind |-> k, data |-> PyNone] : k \in exceptions}
        \cup {[kind |-> "loaded", data |-> doc] : doc \in documents}
  IN {[installed |-> FALSE, files |-> <<>>]}
     \cup {[installed |-> TRUE, files |-> f] : f \in [file_names -> outcomes]}

\* reform mappings of at most MaxParams parameters, two of them kept in
\* the same parameter file; next to a date range, the keys of a parameter
\* hold a key of one part or a key of three parts
LookupMaps ==
  LET KeysOf(path) ==
        IF Contains(path, "tanf")
        THEN {"2025-01-01.2100-12-31", "2025-01-01.2025-06-30.2100-12-31"}
        ELSE {"2025-01-01.2100-12-31", "permanent"}
      value_dicts ==
        ValueDictsOver({"2025-01-01.2100-12-31", "permanent", "2025-01-01.2025-06-30.2100-12-31"})
      DictsOf(paths) ==
        {dicts \in [1..Len(paths) -> value_dicts] :
           \A i \in 1..Len(paths) : \A k \in 1..Len(dicts[i]) : dicts[i][k][1] \in KeysOf(paths[i])}
  IN UNION {{[i \in 1..Len(paths) |-> <<paths[i], dicts[i]>>] : dicts \in DictsOf(paths)} :
              paths \in DistinctSeqs({"gov.irs.credits.ctc.amount.base[0].amount",
                                      "gov.irs.credits.ctc.amount.base[1].amount",
                                      "gov.hhs.tanf.benefit_rate"}, MaxParams)}

InitLookup ==
  LET mapping == [t |-> "dict",
                  d |-> [description |-> "Child Tax Credit amount",
                         metadata |-> [t |-> "dict", d |-> [reference |-> <<"26 USC 24">>, unit |-> "currency-USD"]]]]
      no_metadata == [t |-> "dict", d |-> [description |-> "TANF benefit"]]
      no_reference == [t |-> "dict", d |-> [brackets |-> <<>>, metadata |-> [t |-> "dict", d |-> [unit |-> "/1"]]]]
      null_metadata == [t |-> "dict", d |-> [description |-> "Rate", metadata |-> PyNone]]
      sequence == [t |-> "list"]
      Files(dict) == {ParameterFile(dict[i][1]) : i \in 1..Len(dict)}
  IN /\ pc = "lookup"
     /\ \/ /\ entry = "get_parameter_info"
           /\ \E path \in LookupPaths :
                /\ reform_dict = << <<path, <<>>>> >>
                /\ package \in Packages({ParameterFile(path)},
                                        {"FileNotFoundError", "PermissionError", "YAMLError"},
                                        {mapping, no_metadata, no_reference, null_metadata,
                                         sequence, PyStr("text"), PyNone})
        \/ /\ entry = "parse_policy_reform"
           /\ reform_dict \in LookupMaps
           /\ package \in Packages(Files(reform_dict), {"FileNotFoundError"}, {mapping, null_metadata, PyNone})
     /\ param_info = Absent
     /\ reforms_info = <<>>
     /\ collaborator = Absent
     /\ requests = <<>>
     /\ bill_text = Absent
     /\ policy_info = Absent
     /\ code = ""
     /\ literal = <<>>
     /\ error = ""
     /\ reform = Absent
     /\ description = ""

\* get_parameter_info applied to a path
GetParameterInfo ==
  /\ entry = "get_parameter_info"
  /\ pc = "lookup"
  /\ param_info' = get_parameter_info(reform_dict[1][1], package)
  /\ pc' = "returned"
  /\ UNCHANGED <<entry, code, literal, reform_dict, policy_info, reform, description, error, package, reforms_info,
               collaborator, requests, bill_text>>

\* parse_policy_reform applied to a reform mapping
ParsePolicyReform ==
  /\ entry = "parse_policy_reform"
  /\ pc = "lookup"
  /\ \E result \in {parse_policy_reform(reform_dict, package)} :
       /\ error' = result.raised
       /\ reforms_info' = result.reforms_info
  /\ pc' = "returned"
  /\ UNCHANGED <<entry, code, literal, reform_dict, policy_info, reform, description, package, param_info,
               collaborator, requests, bill_text>>

NextLookup == GetParameterInfo \/ ParsePolicyReform

SpecLookup == InitLookup /\ [][NextLookup]_vars

(***************************************************************************)
(* The description of the records of parse_policy_reform                   *)
(* (policy_text_generator.py), which the drafting request displays and     *)
(* sends to the text-generation service.  The values explored are integers *)
(* and strings; a reference is a tagged value, a mapping [t |-> "dict",    *)
(* d |-> r] or a scalar.                                                   *)
(***************************************************************************)
\* generate_policy_text: raised is "" and text the description, or raised
\* names the exception of the first statement that raises
generate_policy_text(reform_info) ==
  LET n == Len(reform_info)
      \* the records area by area, the areas in the order of their first record
      FirstOf(i) == Least({j \in 1..n : reform_info[j].policy_area = reform_info[i].policy_area})
      Grouped(keys) == [k \in 1..n |-> reform_info[keys[k] % (n + 1)]]
      ValueStr(v) ==
        IF v.t = "int" /\ v.n >= 1000 THEN "$" \o Commas(v.n) ELSE StrOf(v)
      RateStr(v) ==
        IF v.t = "int" /\ v.n <= 1 THEN StrOf(PyInt(v.n * 100)) \o "%" ELSE ValueStr(v)
      Period(r) == "from " \o r.start_date \o " to " \o r.end_date \o "."
      Sentence(r) ==
        CASE Contains(r.parameter, "ctc.amount.base") ->
               "Change the Child Tax Credit amount to " \o ValueStr(r.new_value) \o " " \o Period(r)
          [] Contains(r.parameter, "eitc") /\ Contains(r.parameter, "age") ->
               "Change the EITC " \o r.name \o " eligibility age to " \o ValueStr(r.new_value) \o " " \o Period(r)
          [] Contains(r.parameter, "eitc") /\ Contains(r.parameter, "investment_income") ->
               "Change the maximum investment income for EITC eligibility to "
                 \o ValueStr(r.new_value) \o " " \o Period(r)
          [] Contains(r.name, "threshold") ->
               "Change the " \o r.description \o " threshold to " \o ValueStr(r.new_value) \o " " \o Period(r)
          [] Contains(r.name, "rate") ->
               "Change the " \o r.description \o " rate to " \o RateStr(r.new_value) \o " " \o Period(r)
          [] OTHER ->
               "Change " \o (IF r.description # "" THEN r.description ELSE r.parameter)
                 \o " to " \o ValueStr(r.new_value) \o " " \o Period(r)
      HasGet(ref) == ref.t = "dict"
      Titles(refs) == [k \in 1..Len(refs) |-> Get(refs[k].d, "title", "Unknown reference")]
      Described(r) ==
        IF r.references = <<>> THEN Sentence(r)
        ELSE Sentence(r) \o " This modifies " \o JoinStr(Titles(r.references), ", ") \o "."
      Raises(r) == \E k \in 1..Len(r.references) : ~HasGet(r.references[k])
      Text(records) ==
        (IF n = 1 THEN "This policy reform includes the following change:\n\n"
         ELSE "This policy reform includes the following " \o NatToStr(n) \o " changes:\n\n")
          \o JoinStr([k \in 1..n |-> "- " \o Described(records[k])], "\n")
  IN IF n = 0 THEN [raised |-> "", text |-> "No policy changes were identified."]
     ELSE IF \E i \in 1..n : Raises(reform_info[i]) THEN [raised |-> "AttributeError", text |-> ""]
     ELSE [raised |-> "", text |-> Text(Grouped(Sorted({FirstOf(i) * (n + 1) + i : i \in 1..n})))]

(***************************************************************************)
(* The text-generation gateway (utils/bill_generator.py) and the drafting  *)
(* request of the code-input tab (app.py).  The text-generation service is *)
(* outside the program: what it does with a request is chosen when the     *)
(* request is sent.  A request is recorded with its model and its user     *)
(* prompt; the system prompt is a constant of the caller.                  *)
(***************************************************************************)
\* what the service can do with a request: complete it with a text, with
\* or without surrounding whitespace, complete it with a message that has
\* no content, or fail with one of its own errors (subclasses of
\* OpenAIError)
Collaborators ==
  {[kind |-> "completed", content |-> PyStr("\n H.R. ____\nA BILL\nSECTION 1: SHORT TITLE.\n\n"), message |-> ""],
   [kind |-> "completed", content |-> PyStr("H.R. ____\n\nBe it enacted"), message |-> ""],
   [kind |-> "completed", content |-> PyNone, message |-> ""],
   [kind |-> "AuthenticationError", content |-> PyNone, message |-> "Incorrect API key provided"],
   [kind |-> "RateLimitError", content |-> PyNone, message |-> "Rate limit reached"],
   [kind |-> "InternalServerError", content |-> PyNone, message |-> "The server had an error"]}

\* OpenAI() without credentials: the client cannot be constructed
Unconfigured ==
  [kind |-> "unconfigured", content |-> PyNone,
   message |-> "The api_key client option must be set either by passing api_key to the client or by setting the OPENAI_API_KEY environment variable"]

\* a gateway that reports every failure as an unexpected one
BillTextFailuresAlike(policy_text, model_name, return_prompts, service) ==
  LET request ==
        [model |-> model_name,
         user |-> "Draft legislation that implements the following policy change: " \o Strip(policy_text)]
      Raise(message, sent) ==
        [raised |-> "BillGenerationError", message |-> message, value |-> Absent, sent |-> sent]
  IN CASE service.kind = "unconfigured" -> Raise("Unexpected error: " \o service.message, <<>>)
       [] service.kind = "completed" /\ service.content.t = "str" ->
            [raised |-> "", message |-> "", value |-> PyStr(Strip(service.content.s)), sent |-> <<request>>]
       [] service.kind = "completed" ->
            Raise("Unexpected error: 'NoneType' object has no attribute 'strip'", <<request>>)
       [] OTHER -> Raise("Unexpected error: " \o service.message, <<request>>)

\* a gateway that sends its request a second time when the first fails
BillTextRetrying(policy_text, model_name, return_prompts, service) ==
  LET request ==
        [model |-> model_name,
         user |-> "Draft legislation that implements the following policy change: " \o Strip(policy_text)]
      Raise(message, sent) ==
        [raised |-> "BillGenerationError", message |-> message, value |-> Absent, sent |-> sent]
  IN CASE service.kind = "unconfigured" -> Raise("OpenAI API error: " \o service.message, <<>>)
       [] service.kind = "completed" /\ service.content.t = "str" ->
            [raised |-> "", message |-> "", value |-> PyStr(Strip(service.content.s)), sent |-> <<request>>]
       [] service.kind = "completed" ->
            Raise("Unexpected error: 'NoneType' object has no attribute 'strip'", <<request, request>>)
       [] OTHER -> Raise("OpenAI API error: " \o service.message, <<request, request>>)

\* generate_bill_text: raised is "" and value the result, or raised is
\* BillGenerationError with its message; sent holds the requests made
generate_bill_text(policy_text, model_name, return_prompts, service) ==
  LET system_prompt ==
        "You are a professional legislative counsel. "
          \o "Write concise, legally-sound statutory language in active voice. "
          \o "Keep scope narrowly tailored to the described policy change and include effective dates."
      user_prompt ==
        "Draft legislation that implements the following policy change: " \o Strip(policy_text)
      request == [model |-> model_name, user |-> user_prompt]
      Raise(message, sent) ==
        [raised |-> "BillGenerationError", message |-> message, value |-> Absent, sent |-> sent]
      Return(text) ==
        [raised |-> "", message |-> "",
         value |-> IF return_prompts
                   THEN [t |-> "tuple", bill_text |-> text,
                         prompts |-> [system_prompt |-> system_prompt, user_prompt |-> user_prompt]]
                   ELSE PyStr(text),
         sent |-> <<request>>]
  IN CASE service.kind = "unconfigured" -> Raise("OpenAI API error: " \o service.message, <<>>)
       [] service.kind = "completed" /\ service.content.t = "str" -> Return(Strip(service.content.s))
       [] service.kind = "completed" ->
            Raise("Unexpected error: 'NoneType' object has no attribute 'strip'", <<request>>)
       [] OTHER -> Raise("OpenAI API error: " \o service.message, <<request>>)

\* str() of a mapping of strings to scalars
ReprDict(d) ==
  "{" \o JoinStr([k \in 1..Len(d) |-> "'" \o d[k][1] \o "': " \o StrOf(d[k][2])], ", ") \o "}"

RECURSIVE enhanced_context(_, _)
\* the context the drafting request adds to its prompt, one block per
\* record: raised names the exception of the first statement that raises
enhanced_context(reform_info, pkg) ==
  LET Has(mapping, key) == key \in DOMAIN mapping.d
      Description(info) ==
        IF Has(info, "description") THEN "Description: " \o info.d.description \o "\n" ELSE ""
      Bracket(bracket) ==
        "- Threshold: " \o ReprDict(Get(bracket.d, "threshold", <<>>)) \o "\n"
          \o "  Amount: " \o ReprDict(Get(bracket.d, "amount", <<>>)) \o "\n"
      Current(info) ==
        CASE Has(info, "brackets") ->
               "Current brackets:\n"
                 \o JoinStr([k \in 1..Len(info.d.brackets) |-> Bracket(info.d.brackets[k])], "")
          [] Has(info, "values") -> "Current values: " \o ReprDict(info.d.values) \o "\n"
          [] OTHER -> ""
      Type(info) ==
        IF Has(info, "metadata") /\ Has(info.d.metadata, "type")
        THEN "Type: " \o info.d.metadata.d.type \o "\n" ELSE ""
      Reference(ref) ==
        IF "title" \in DOMAIN ref.d
        THEN "- " \o ref.d.title \o (IF "href" \in DOMAIN ref.d THEN " (" \o ref.d.href \o ")" ELSE "") \o "\n"
        ELSE ""
      References(info) ==
        IF Has(info, "metadata") /\ Has(info.d.metadata, "reference")
        THEN "Legal references:\n"
               \o JoinStr([k \in 1..Len(info.d.metadata.d.reference) |->
                             Reference(info.d.metadata.d.reference[k])], "")
        ELSE ""
      Proposed(item) ==
        "Proposed change: " \o StrOf(item.new_value) \o " (effective " \o item.start_date
          \o " to " \o item.end_date \o ")\n\n"
      Raises(info) ==
        Has(info, "brackets") /\ \E k \in 1..Len(info.d.brackets) : info.d.brackets[k].t # "dict"
      Block(item, info) ==
        IF Raises(info) THEN [raised |-> "AttributeError", text |-> ""]
        ELSE [raised |-> "",
              text |-> "Parameter: " \o item.parameter \o "\n" \o Description(info) \o Current(info)
                         \o Type(info) \o References(info) \o Proposed(item)]
      Then(first, rest) ==
        IF first.raised # "" THEN first
        ELSE IF rest.raised # "" THEN rest
        ELSE [raised |-> "", text |-> first.text \o rest.text]
  IN IF reform_info = <<>>
     THEN [raised |-> "", text |-> ""]
     ELSE Then(Block(reform_info[1], get_parameter_info(reform_info[1].parameter, pkg)),
               enhanced_context(Tail(reform_info), pkg))

(***************************************************************************)
(* Inputs of the drafting request: source texts whose reform literal names *)
(* parameters of two parameter files, and the documents those files hold.  *)
(* The parameter package is outside the program: its state is chosen when  *)
(* the request first looks a parameter up, and stays as it is afterwards.  *)
(***************************************************************************)
\* reform literals of at most MaxParams blocks: the first of at most
\* MaxChanges pairs whose tokens are an integer and a name in turn, the
\* others of one pair
DraftLiterals ==
  LET tokens == <<"2500", "x">>
      FirstPairs(keys, row) == [i \in 1..Len(keys) |-> <<keys[i], tokens[((row + i) % 2) + 1]>>]
      first_pairs ==
        {FirstPairs(keys, row) :
           keys \in DistinctSeqs({"2025-01-01.2100-12-31", "2026-01-01.2030-12-31", "permanent"}, MaxChanges),
           row \in 1..2}
  IN {[j \in 1..Len(paths) |->
         <<paths[j], IF j = 1 THEN pairs ELSE << <<"2025-01-01.2100-12-31", "1">> >> >>] :
        paths \in DistinctSeqs({"gov.irs.credits.ctc.amount.base[0].amount",
                                "gov.hhs.tanf.benefit_rate"}, MaxParams) \ {<<>>},
        pairs \in first_pairs}

\* what a parameter file of the package can hold: a mapping with a
\* reference that has a title, a mapping whose reference is a string, a
\* mapping whose bracket is a number, and nothing
DraftDocuments ==
  {[t |-> "dict",
    d |-> [description |-> "Child Tax Credit amount",
           brackets |-> << [t |-> "dict", d |-> [amount |-> << <<"2018-01-01", PyInt(2000)>> >>]] >>,
           metadata |-> [t |-> "dict",
                         d |-> [type |-> "single_amount",
                                reference |-> << [t |-> "dict",
                                                  d |-> [title |-> "26 U.S. Code 24(a)",
                                                         href |-> "https://www.law.cornell.edu/uscode/text/26/24"]] >>]]]],
   [t |-> "dict",
    d |-> [description |-> "TANF benefit",
           metadata |-> [t |-> "dict", d |-> [reference |-> <<PyStr("42 U.S.C. 601")>>]]]],
   [t |-> "dict", d |-> [values |-> << <<"2025-01-01", PyInt(1)>> >>, brackets |-> <<PyInt(1)>>]],
   PyNone}

(***************************************************************************)
(* The gateway and the drafting requests as a state machine.  A request is *)
(* the handler of the button generate_policy_bill (code input) or          *)
(* generate_plain_bill (plain language); pc is the stage it has reached.   *)
(***************************************************************************)
InitDraft ==
  LET keyword == [head |-> "reform = Reform.from_dict(", tail |-> ", country_id=\"us\")", comma |-> TRUE,
                  lines |-> FALSE, epilogue |-> ""]
      plain == [keyword EXCEPT !.tail = ")"]
      no_call == [keyword EXCEPT !.head = "reform = dict("]
  IN /\ \/ /\ entry = "generate_policy_bill"
           /\ pc = "clicked"
           /\ description = ""
           /\ \/ \E blocks \in DraftLiterals, shape \in {keyword, plain} :
                   /\ literal = blocks
                   /\ code = SourceText(blocks, shape)
              \/ /\ literal = <<>>
                 /\ code \in {"", " \n", SourceText(<<>>, no_call)}
        \/ /\ \/ entry = "generate_bill_text" /\ pc = "call"
              \/ entry = "generate_plain_bill" /\ pc = "clicked"
           /\ description \in {"Change the Child Tax Credit amount to $2,500 from 2025-01-01 to 2100-12-31.",
                               "\n  Raise the TANF benefit rate.  \n", ""}
           /\ literal = <<>>
           /\ code = ""
     /\ package = Absent
     /\ reform_dict = <<>>
     /\ policy_info = Absent
     /\ reform = Absent
     /\ error = ""
     /\ param_info = Absent
     /\ reforms_info = <<>>
     /\ collaborator = Absent
     /\ requests = <<>>
     /\ bill_text = Absent

\* generate_bill_text applied to a policy text
GenerateBillText ==
  /\ entry = "generate_bill_text"
  /\ pc = "call"
  /\ \E service \in Collaborators \cup {Unconfigured}, model_name \in {"o3", "gpt-4o"},
        return_prompts \in BOOLEAN :
       \E result \in {generate_bill_text(description, model_name, return_prompts, service)} :
         /\ collaborator' = service
         /\ requests' = requests \o result.sent
         /\ bill_text' = result.value
         /\ error' = result.message
         /\ pc' = IF result.raised = "" THEN "returned" ELSE "raised"
  /\ UNCHANGED <<entry, code, literal, reform_dict, policy_info, reform, description, package,
                 param_info, reforms_info>>

\* the request: the blank-input test and extract_reform_dict_from_code
GeneratePolicyBillExtract ==
  /\ entry = "generate_policy_bill"
  /\ pc = "clicked"
  /\ IF Strip(code) = ""
     THEN /\ error' = "Please enter PolicyEngine Python code."
          /\ pc' = "stopped"
          /\ UNCHANGED reform_dict
     ELSE \E result \in {extract_reform_dict_from_code(code)} :
            IF result.ok
            THEN /\ reform_dict' = result.reform_dict
                 /\ pc' = "extracted"
                 /\ UNCHANGED error
            ELSE /\ error' = "Error extracting reform: "
                               \o (IF SearchCall(code).found
                                   THEN "Could not parse the reform dictionary from the code: "
                                          \o "Could not extract parameters from the reform dictionary"
                                   ELSE "Could not find Reform.from_dict() in the provided code")
                 /\ pc' = "aborted"
                 /\ UNCHANGED reform_dict
  /\ UNCHANGED <<entry, code, literal, policy_info, reform, description, package, param_info,
                 reforms_info, collaborator, requests, bill_text>>

\* the request: parse_policy_reform, whose lookups find the parameter
\* package in one of its states
GeneratePolicyBillParse ==
  /\ entry = "generate_policy_bill"
  /\ pc = "extracted"
  /\ package' \in Packages({ParameterFile(reform_dict[i][1]) : i \in 1..Len(reform_dict)}, {}, DraftDocuments)
  /\ \E result \in {parse_policy_reform(reform_dict, package')} :
       CASE result.raised = "" ->
              /\ reforms_info' = result.reforms_info
              /\ pc' = "normalised"
              /\ UNCHANGED error
         [] result.raised = "ValueError" ->
              /\ error' = "Error extracting reform: not enough values to unpack (expected 2, got 1)"
              /\ pc' = "aborted"
              /\ UNCHANGED reforms_info
         [] OTHER ->
              /\ error' = "Error processing PolicyEngine reform: 'NoneType' object has no attribute 'get'"
              /\ pc' = "aborted"
              /\ UNCHANGED reforms_info
  /\ UNCHANGED <<entry, code, literal, reform_dict, policy_info, reform, description, param_info,
                 collaborator, requests, bill_text>>

\* a request that goes on without a policy text when rendering fails
RenderFailureIgnored ==
  /\ entry = "generate_policy_bill"
  /\ pc = "normalised"
  /\ \E result \in {generate_policy_text(reforms_info)} :
       description' = IF result.raised = "" THEN result.text ELSE ""
  /\ pc' = "rendered"
  /\ UNCHANGED <<entry, code, literal, reform_dict, policy_info, reform, error, package, param_info,
                 reforms_info, collaborator, requests, bill_text>>

\* the request: generate_policy_text, whose text is displayed
GeneratePolicyBillRender ==
  /\ entry = "generate_policy_bill"
  /\ pc = "normalised"
  /\ \E result \in {generate_policy_text(reforms_info)} :
       IF result.raised = ""
       THEN /\ description' = result.text
            /\ pc' = "rendered"
            /\ UNCHANGED error
       ELSE /\ error' = "Error processing PolicyEngine reform: 'str' object has no attribute 'get'"
            /\ pc' = "aborted"
            /\ UNCHANGED description
  /\ UNCHANGED <<entry, code, literal, reform_dict, policy_info, reform, package, param_info,
                 reforms_info, collaborator, requests, bill_text>>

\* the request: the parameter details, the prompt, the one request to the
\* service and the display of its text or of its failure
GeneratePolicyBillDraft ==
  /\ entry = "generate_policy_bill"
  /\ pc = "rendered"
  /\ \E context \in {enhanced_context(reforms_info, package)} :
       IF context.raised # ""
       THEN /\ error' = "Error processing PolicyEngine reform: 'int' object has no attribute 'get'"
            /\ pc' = "aborted"
            /\ UNCHANGED <<collaborator, requests, bill_text>>
       ELSE \E service \in Collaborators :
              /\ collaborator' = service
              /\ requests' =
                   Append(requests,
                          [model |-> "gpt-4o",
                           user |-> "Draft legislation that implements the following policy change:\n\n"
                                      \o description \o "\n\n"
                                      \o "Here is additional context about the parameters being modified:\n\n"
                                      \o context.text])
              /\ CASE service.kind = "completed" /\ service.content.t = "str" ->
                        /\ bill_text' = PyStr(Strip(service.content.s))
                        /\ pc' = "drafted"
                        /\ UNCHANGED error
                   [] service.kind = "completed" ->
                        /\ error' = "Unexpected error: 'NoneType' object has no attribute 'strip'"
                        /\ pc' = "failed"
                        /\ UNCHANGED bill_text
                   [] OTHER ->
                        /\ error' = "OpenAI API error: " \o service.message
                        /\ pc' = "failed"
                        /\ UNCHANGED bill_text
  /\ UNCHANGED <<entry, code, literal, reform_dict, policy_info, reform, description, package,
                 param_info, reforms_info>>

\* the request of the plain-language tab: the blank-input test, the one
\* request to the service and the display of its text or of its failure
GeneratePlainBill ==
  /\ entry = "generate_plain_bill"
  /\ pc = "clicked"
  /\ IF Strip(description) = ""
     THEN /\ error' = "Please enter a policy change."
          /\ pc' = "stopped"
          /\ UNCHANGED <<collaborator, requests, bill_text>>
     ELSE \E service \in Collaborators :
            /\ collaborator' = service
            /\ requests' =
                 Append(requests,
                        [model |-> "gpt-4o",
                         user |-> "Draft legislation that implements the following policy change:\n\n"
                                    \o Strip(description)])
            /\ CASE service.kind = "completed" /\ service.content.t = "str" ->
                      /\ bill_text' = PyStr(Strip(service.content.s))
                      /\ pc' = "drafted"
                      /\ UNCHANGED error
                 [] service.kind = "completed" ->
                      /\ error' = "Unexpected error: 'NoneType' object has no attribute 'strip'"
                      /\ pc' = "failed"
                      /\ UNCHANGED bill_text
                 [] OTHER ->
                      /\ error' = "OpenAI API error: " \o service.message
                      /\ pc' = "failed"
                      /\ UNCHANGED bill_text
  /\ UNCHANGED <<entry, code, literal, reform_dict, policy_info, reform, description, package,
                 param_info, reforms_info>>

NextDraft ==
  \/ GenerateBillText
  \/ GeneratePlainBill
  \/ GeneratePolicyBillExtract
  \/ GeneratePolicyBillParse
  \/ GeneratePolicyBillRender
  \/ GeneratePolicyBillDraft

SpecDraft == InitDraft /\ [][NextDraft]_vars

(***************************************************************************)
(* Vocabulary of the properties.                                           *)
(***************************************************************************)
\* YYYY-MM-DD
IsIsoDate(d) ==
  /\ Len(d) = 10
  /\ \A i \in {1, 2, 3, 4, 6, 7, 9, 10} : IsDigitCh(Ch(d, i))
  /\ Ch(d, 5) = "-"
  /\ Ch(d, 8) = "-"

\* a date-range key whose first two dot-separated parts are ISO dates
IsDatedKey(key) ==
  LET parts == Split(key, ".")
  IN Len(parts) >= 2 /\ IsIsoDate(parts[1]) /\ IsIsoDate(parts[2])

\* the four year digits of the start date and of the end date of a dated key
StartYearText(key) == SubSeq(key, 1, 4)
EndYearText(key) == SubSeq(key, 12, 15)

\* the request went through normalisation and has reached stage st
Normalised == entry = "mapping" /\ pc \in {"parsed", "done"}
Rendered == pc = "done"

\* the positions of the dated keys of the value mapping of entry i
DatedPositions(i) == {k \in 1..Len(reform_dict[i][2]) : IsDatedKey(reform_dict[i][2][k][1])}

(***************************************************************************)
(* C1: normalising a reform mapping of N parameter entries yields exactly  *)
(* N parameter records, the i-th carrying the path of the i-th key of the  *)
(* mapping; no entry is dropped, merged or reordered, also when its value  *)
(* mapping is empty.                                                       *)
(***************************************************************************)
C1_OneRecordPerEntry ==
  /\ Normalised =>
       /\ Len(policy_info.parameters) = Len(reform_dict)
       /\ \A i \in 1..Len(reform_dict) : policy_info.parameters[i].path = reform_dict[i][1]
  /\ (entry = "mapping" /\ Rendered) =>
       /\ Len(reform.parameters) = Len(reform_dict)
       /\ \A i \in 1..Len(reform_dict) :
            /\ reform.parameters[i].path = reform_dict[i][1]
            /\ Len(reform.parameters[i].changes) = Len(reform_dict[i][2])

\* a mapping of two entries, one of them with an empty value mapping, has
\* been normalised and rendered
C1_Witness ==
  /\ entry = "mapping" /\ Rendered
  /\ Len(reform_dict) = 2
  /\ \E i \in 1..2 : reform_dict[i][2] = <<>>
  /\ Len(reform.parameters) = 2

(***************************************************************************)
(* C5: when a parameter has several date-range keys that parse as dated    *)
(* changes, the parameter's year is the start year of the first of them in *)
(* the iteration order of the value mapping.                               *)
(***************************************************************************)
C5_FirstYearWins ==
  /\ Normalised =>
       \A i \in 1..Len(reform_dict) :
         DatedPositions(i) # {} =>
           LET first == CHOOSE k \in DatedPositions(i) : \A j \in DatedPositions(i) : k <= j
           IN /\ "year" \in DOMAIN policy_info.parameters[i]
              /\ policy_info.parameters[i].year =
                   PyInt(DigitsToInt(StartYearText(reform_dict[i][2][first][1])))
  /\ (entry = "mapping" /\ Rendered) =>
       \A i \in 1..Len(reform_dict) :
         DatedPositions(i) # {} =>
           LET first == CHOOSE k \in DatedPositions(i) : \A j \in DatedPositions(i) : k <= j
           IN get_effective_year(reform.parameters[i]) =
                PyInt(DigitsToInt(StartYearText(reform_dict[i][2][first][1])))

(***************************************************************************)
(* C6: a date-range key that splits on "." into fewer than two parts, or   *)
(* into parts that are not both ISO dates, yields an opaque change that    *)
(* carries the raw key as date_range, has no start or end date and         *)
(* contributes no year; the other changes of the parameter are normalised  *)
(* as dated changes all the same.                                          *)
(***************************************************************************)
C6_OpaqueFallback ==
  Normalised =>
    \A i \in 1..Len(reform_dict) :
      LET dict == reform_dict[i][2]
          param == policy_info.parameters[i]
      IN /\ Len(param.changes) = Len(dict)
         /\ \A k \in 1..Len(dict) :
              IF IsDatedKey(dict[k][1])
              THEN param.changes[k] =
                     [start_date |-> PyStr(Split(dict[k][1], ".")[1]),
                      end_date |-> PyStr(Split(dict[k][1], ".")[2]),
                      value |-> dict[k][2]]
              ELSE param.changes[k] = [date_range |-> PyStr(dict[k][1]), value |-> dict[k][2]]
         /\ (DatedPositions(i) = {}) => "year" \notin DOMAIN param

\* the pairs <<i, k>> of a parameter position and a change position of reform
ChangePositions ==
  UNION {{<<i, k>> : k \in 1..Len(reform.parameters[i].changes)} : i \in 1..Len(reform.parameters)}

\* the date phrase and the formatted value rendered for change k of parameter i
PhraseAt(i, k) == get_formatted_dates(reform.parameters[i].changes[k])
ValueAt(i, k) == get_formatted_value(reform.parameters[i], k - 1)

\* the phrase of a dated key, from the year digits of its two dates
DatedPhrase(key) ==
  IF EndYearText(key) = "2100"
  THEN "starting in " \o StartYearText(key)
  ELSE "from " \o StartYearText(key) \o " to " \o EndYearText(key)

C8_SpecifiedPeriod ==
  (entry = "info" /\ Rendered) =>
    \A pos \in ChangePositions :
      LET record == policy_info.parameters[pos[1]].changes[pos[2]]
      IN (DOMAIN record) \cap {"date_range", "start_date", "end_date"} = {} =>
           /\ PhraseAt(pos[1], pos[2]) = "for a specified period"
           /\ Contains(description, " for a specified period.")

(***************************************************************************)
(* Reading a rendered number back.                                         *)
(***************************************************************************)
\* text without its leading minus sign, and the sign as a factor
Unsigned(text) == IF MatchAt(text, "-", 1) THEN SubSeq(text, 2, Len(text)) ELSE text
SignFactor(text) == IF MatchAt(text, "-", 1) THEN -1 ELSE 1

\* digits in groups separated by commas: one to three digits, then groups
\* of exactly three
IsGrouped(text) ==
  LET groups == Split(text, ",")
  IN /\ IsDigit(groups[1]) /\ Len(groups[1]) <= 3
     /\ \A g \in 2..Len(groups) : IsDigit(groups[g]) /\ Len(groups[g]) = 3

\* the number written by grouped digits
GroupedValue(text) == DigitsToInt(JoinStr(Split(text, ","), ""))

\* [-]digits.digit%
IsPercentShape(text) ==
  /\ Len(text) >= 4
  /\ Ch(text, Len(text)) = "%"
  /\ IsDigitCh(Ch(text, Len(text) - 1))
  /\ Ch(text, Len(text) - 2) = "."
  /\ IsDigit(Unsigned(SubSeq(text, 1, Len(text) - 3)))

\* the tenths written by a percentage
PercentTenths(text) ==
  SignFactor(text) *
    (10 * DigitsToInt(Unsigned(SubSeq(text, 1, Len(text) - 3))) + DigitValue[Ch(text, Len(text) - 1)])

\* a scalar in thousandths
Milli(v) == IF v.t = "int" THEN 1000 * v.n ELSE v.n

\* the thousandths written by "[-]grouped[.fraction]", fraction of one to
\* three digits
PlainMilli(text) ==
  LET parts == Split(Unsigned(text), ".")
      frac == IF Len(parts) = 2 THEN parts[2] ELSE ""
      padded == frac \o SubSeq("000", 1, 3 - Len(frac))
  IN SignFactor(text) * (1000 * GroupedValue(parts[1]) + DigitsToInt(padded))

IsPlainShape(text) ==
  LET parts == Split(Unsigned(text), ".")
  IN /\ Len(parts) <= 2
     /\ IsGrouped(parts[1])
     /\ Len(parts) = 2 => (IsDigit(parts[2]) /\ Len(parts[2]) <= 3)

\* the parameter is formatted as a rate, as an amount
RateLike(param) == param.type = "Tax Rate" \/ Contains(Lower(param.path), "rate")
AmountLike(param) == Contains(Lower(param.path), "amount") \/ Contains(Lower(param.path), "benefit")

(***************************************************************************)
(* C9: for a parameter whose type is "Tax Rate" or whose path contains     *)
(* "rate", a numeric value v renders as a percentage with exactly one      *)
(* decimal place, of v * 100 when v < 1 and of v itself when v >= 1;       *)
(* 0.07 renders "7.0%" and 7 renders "7.0%".                               *)
(***************************************************************************)
C9_Percentage ==
  Rendered =>
    \A pos \in ChangePositions :
      LET param == reform.parameters[pos[1]]
          v == param.changes[pos[2]].value
          shown == IF Milli(v) < 1000 THEN 100 * Milli(v) ELSE Milli(v)
          text == ValueAt(pos[1], pos[2])
      IN (IsNumeric(v) /\ (param.type = "Tax Rate" \/ Contains(param.path, "rate"))) =>
           /\ IsPercentShape(text)
           /\ 2 * Abs(100 * PercentTenths(text) - shown) <= 100
           /\ Milli(v) < 1000 => 100 * PercentTenths(text) = shown
           /\ v \in {PyFloat(70), PyInt(7)} => text = "7.0%"
           /\ Contains(description, " to " \o text \o " ")

\* a rate of 0.07 has been rendered as 7.0%
C9_Witness ==
  /\ Rendered
  /\ \E pos \in ChangePositions :
       /\ Contains(reform.parameters[pos[1]].path, "rate")
       /\ reform.parameters[pos[1]].changes[pos[2]].value = PyFloat(70)
  /\ Contains(description, " to 7.0% ")

(***************************************************************************)
(* C10: value formatting applies its rules in this precedence: a numeric   *)
(* value of a parameter of type "Tax Rate" or with "rate" in its path is a *)
(* percentage; else a numeric value of a path with "amount" or "benefit"   *)
(* is currency with "$", thousands separators and no decimals; else a      *)
(* numeric value has thousands separators and no currency symbol; a        *)
(* non-numeric value is its string form unchanged.  The path is searched   *)
(* without regard to case.                                                 *)
(***************************************************************************)
C10_Precedence ==
  LET Holds(param, v, text) ==
        /\ Contains(description, " to " \o text \o " ")
        /\ (IsNumeric(v) /\ RateLike(param)) => IsPercentShape(text)
        /\ (IsNumeric(v) /\ ~RateLike(param) /\ AmountLike(param)) =>
             /\ MatchAt(text, "$", 1)
             /\ IsGrouped(Unsigned(SubSeq(text, 2, Len(text))))
             /\ 2 * Abs(PlainMilli(SubSeq(text, 2, Len(text))) - Milli(v)) <= 1000
             /\ v = PyInt(2500) => text = "$2,500"
        /\ (IsNumeric(v) /\ ~RateLike(param) /\ ~AmountLike(param)) =>
             /\ IsPlainShape(text)
             /\ PlainMilli(text) = Milli(v)
        /\ v.t = "str" => text = v.s
  IN Rendered =>
       \A pos \in ChangePositions :
         Holds(reform.parameters[pos[1]], reform.parameters[pos[1]].changes[pos[2]].value, ValueAt(pos[1], pos[2]))

\* a numeric value under a path that contains both "amount" and "rate" has
\* been rendered as a percentage
C10_Witness ==
  /\ Rendered
  /\ \E pos \in ChangePositions :
       /\ Contains(reform.parameters[pos[1]].path, "rate")
       /\ Contains(reform.parameters[pos[1]].path, "amount")
       /\ reform.parameters[pos[1]].changes[pos[2]].value = PyInt(2500)
  /\ Contains(description, " to 2500.0% ")

(***************************************************************************)
(* Vocabulary of the properties of extraction.                             *)
(***************************************************************************)
\* the extractor has returned
Returned == pc \in {"parsed", "extracted"}

\* the call span the extractor applied looks for
CallSpan == IF entry = "parse_policy_json" THEN SearchCallWithKeyword(code) ELSE SearchCall(code)

\* the text handed to the strict parse
LiteralSpan == IF entry = "parse_policy_json" THEN CallSpan.group ELSE Strip(CallSpan.group)

\* a call span was found and the strict parse of it failed
StrictFailed == CallSpan.found /\ ~literal_eval(LiteralSpan).ok

\* the mapping the pattern scan of the extractor applied recovers
Scanned ==
  IF entry = "parse_policy_json"
  THEN _safe_eval_dict(SearchBraces(LiteralSpan).group)
  ELSE ScanParamBlocks(LiteralSpan, 1, <<>>)

\* a digit-only or decimal token
IsNumericToken(token) == IsDigit(token) \/ (Contains(token, ".") /\ IsDigit(RemoveCh(token, ".")))

\* the number a numeric token denotes
NumberOf(token) == IF IsDigit(token) THEN PyInt(DigitsToInt(token)) ELSE PyFloat(DecimalToMilli(token))

\* the pair i of the block j of the literal is in the mapping returned,
\* with the number its token denotes
Recovered(j, i) ==
  /\ DictHas(reform_dict, literal[j][1])
  /\ DictHas(DictGet(reform_dict, literal[j][1]), literal[j][2][i][1])
  /\ DictGet(DictGet(reform_dict, literal[j][1]), literal[j][2][i][1]) = NumberOf(literal[j][2][i][2])

\* C2: an extractor that returns has recovered every parameter block of
\* the reform literal: no mapping holding only some of the blocks is
\* returned, by the strict parse or by the pattern scan.
C2_AllOrNothing ==
  (entry \in {"parse_policy_json", "extract_reform_dict_from_code"} /\ Returned)
    => \A j \in 1..Len(literal) : DictHas(reform_dict, literal[j][1])

\* C3: extraction fails, and returns no mapping, when the text holds no
\* call span and when the strict parse failed and the pattern scan
\* recovered no key; the mapping returned after a failed strict parse is
\* never empty.
C3_FailsWhenNothingRecovered ==
  (entry \in {"parse_policy_json", "extract_reform_dict_from_code"} /\ pc # "source")
    => /\ ~CallSpan.found => pc = "failed" /\ error \in {"PolicyParseError", "ValueError"}
       /\ (StrictFailed /\ Scanned = <<>>) => pc = "failed" /\ error \in {"PolicyParseError", "ValueError"}
       /\ (StrictFailed /\ Returned) => reform_dict # <<>>

\* C4: after a failed strict parse, every pair of every block of the
\* literal whose token is numeric is in the mapping returned, a digit-only
\* token as that integer and a decimal token as that floating-point
\* number, bracket-indexed paths included.
C4_FallbackRecoversNumbers ==
  (entry \in {"parse_policy_json", "extract_reform_dict_from_code"} /\ pc # "source" /\ StrictFailed)
    => \A j \in 1..Len(literal) : \A i \in 1..Len(literal[j][2]) :
         IsNumericToken(literal[j][2][i][2]) => Returned /\ Recovered(j, i)

(***************************************************************************)
(* Vocabulary of the properties of path analysis.                          *)
(***************************************************************************)
\* the path has been analysed
Analysed == entry = "path" /\ pc = "parsed"

AnalysedPath == reform_dict[1][1]

\* the record built for the path
AnalysedRecord == policy_info.parameters[1]

\* the marker is a substring of the lowercased path
HasMarker(marker) == Contains(Lower(AnalysedPath), marker)

\* the type the precedence table gives, first match first
TableType ==
  CASE HasMarker("credit") \/ HasMarker("ctc") -> "Tax Credit"
    [] HasMarker("deduction") -> "Tax Deduction"
    [] HasMarker("amount") -> "Benefit Amount"
    [] HasMarker("rate") -> "Tax Rate"
    [] HasMarker("threshold") \/ HasMarker("limit") -> "Threshold"
    [] HasMarker("eligibility") -> "Eligibility Criteria"
    [] OTHER -> "Policy Parameter"

(***************************************************************************)
(* C11: the type of a path is given by the first marker, in the order      *)
(* credit or ctc, deduction, amount, rate, threshold or limit,             *)
(* eligibility, that is a substring of the lowercased path, and is Policy  *)
(* Parameter when none is; it is always one of the seven types, and        *)
(* gov.irs.credits.ctc.amount.base[0].amount is a Tax Credit.              *)
(***************************************************************************)
C11_TypePrecedence ==
  Analysed =>
    /\ AnalysedRecord.type \in Types
    /\ AnalysedRecord.type = TableType
    /\ AnalysedPath = "gov.irs.credits.ctc.amount.base[0].amount" => AnalysedRecord.type = "Tax Credit"

\* a path that holds the markers credit, ctc and amount is analysed as a
\* Tax Credit
C11_Witness ==
  /\ Analysed
  /\ HasMarker("ctc")
  /\ HasMarker("amount")
  /\ AnalysedRecord.type = "Tax Credit"

\* the segments of the analysed path
Segments == Split(AnalysedPath, ".")

AgencyNames ==
  [abbr \in {"irs", "hhs", "usda", "dol", "ssi"} |->
     CASE abbr = "irs" -> "Internal Revenue Service"
       [] abbr = "hhs" -> "Health and Human Services"
       [] abbr = "usda" -> "Department of Agriculture"
       [] abbr = "dol" -> "Department of Labor"
       [] abbr = "ssi" -> "Social Security Administration"]

(***************************************************************************)
(* C12: for a path of at least two segments whose first is "gov" the       *)
(* agency is the mapped name when the second segment is irs, hhs, usda,    *)
(* dol or ssi and the uppercased second segment otherwise; for every       *)
(* other path it is "Federal Government".                                  *)
(***************************************************************************)
C12_Agency ==
  Analysed =>
    IF Len(Segments) >= 2 /\ Segments[1] = "gov"
    THEN IF Segments[2] \in DOMAIN AgencyNames
         THEN AnalysedRecord.agency = AgencyNames[Segments[2]]
         ELSE AnalysedRecord.agency = Upper(Segments[2])
    ELSE AnalysedRecord.agency = "Federal Government"

\* a path under gov whose agency code is not mapped is analysed to the
\* uppercased code
C12_Witness ==
  /\ Analysed
  /\ Len(Segments) >= 2
  /\ Segments[1] = "gov"
  /\ Segments[2] = "ed"
  /\ AnalysedRecord.agency = "ED"

\* the last segment of the path without its bracket suffix, underscores
\* replaced by spaces, title-cased
LastSegmentName == Title(ReplaceCh(Split(Segments[Len(Segments)], "[")[1], "_", " "))

(***************************************************************************)
(* C13: the readable name of a path is its last segment with any bracket   *)
(* suffix removed, underscores replaced by spaces, title-cased, and        *)
(* "Unknown Parameter" whenever that is empty; it is never empty.          *)
(***************************************************************************)
C13_ReadableName ==
  Analysed =>
    /\ AnalysedRecord.name # ""
    /\ AnalysedRecord.name = (IF LastSegmentName = "" THEN "Unknown Parameter" ELSE LastSegmentName)

(***************************************************************************)
(* Vocabulary of the properties of the metadata lookup.                    *)
(***************************************************************************)
\* get_parameter_info has returned
LookedUp == entry = "get_parameter_info" /\ pc = "returned"

\* what opening and loading the parameter file of the looked-up path gave
LookupOutcome == package.files[CHOOSE name \in DOMAIN package.files : TRUE]

\* the lookup failed: the package or the file is missing, the file cannot
\* be read or parsed, or what it holds is not a mapping
LookupFailure ==
  \/ ~package.installed
  \/ LookupOutcome.kind # "loaded"
  \/ LookupOutcome.data.t # "dict"

(***************************************************************************)
(* C14: get_parameter_info never raises; on every lookup failure (record   *)
(* absent, I/O failure, malformed record, a record that loads but is not a *)
(* mapping, such as an empty one) it returns the stub record with the      *)
(* description "Parameter at {original path}" and an empty reference list, *)
(* so that its result is always a mapping.                                 *)
(***************************************************************************)
C14_LookupStub ==
  LookedUp =>
    /\ error = ""
    /\ param_info.t = "dict"
    /\ LookupFailure =>
         /\ param_info.d.description = "Parameter at " \o reform_dict[1][1]
         /\ param_info.d.metadata.d.reference = <<>>

(***************************************************************************)
(* Vocabulary of the properties of the rendered description.               *)
(***************************************************************************)
RECURSIVE SplitOn(_, _)
\* the pieces of text between the occurrences of sep
SplitOn(text, sep) ==
  LET i == Find(text, sep, 1)
  IN IF i = 0 THEN <<text>>
     ELSE <<SubSeq(text, 1, i - 1)>> \o SplitOn(SubSeq(text, i + Len(sep), Len(text)), sep)

\* the description cut at its blank lines
Paragraphs == SplitOn(description, "\n\n")

\* the lines of text: the pieces between its line breaks
LinesOf(text) ==
  LET Cut(breaks) == [k \in 1..(Len(breaks) - 1) |-> SubSeq(text, breaks[k] + 1, breaks[k + 1] - 1)]
  IN Cut(<<0>> \o Sorted({i \in 1..Len(text) : Ch(text, i) = "\n"}) \o <<Len(text) + 1>>)

\* the lines of the description
Lines == LinesOf(description)

\* the reform has a first parameter and that parameter has a change
HasPrimaryChange == reform.parameters # <<>> /\ reform.parameters[1].changes # <<>>

\* the opening of the summary for a first parameter of the type and name
SummaryLead(type, name) ==
  CASE type = "Tax Credit" -> "This reform modifies the " \o name \o " to"
    [] type = "Tax Rate" -> "This reform sets the " \o name \o " to"
    [] type = "Benefit Amount" -> "This reform changes the " \o name \o " to"
    [] type = "Threshold" -> "This reform adjusts the " \o name \o " to"
    [] OTHER -> "This reform changes the " \o name \o " parameter to"

CtcExample ==
  << <<"gov.irs.credits.ctc.amount.base[0].amount", << <<"2025-01-01.2100-12-31", PyInt(2500)>> >> >> >>

(***************************************************************************)
(* C15: the summary is one sentence about the first change of the first    *)
(* parameter: the opening chosen by the type of the first parameter (Tax   *)
(* Credit "This reform modifies the {name} to", Tax Rate "sets", Benefit   *)
(* Amount "changes", Threshold "adjusts", any other type "changes the      *)
(* {name} parameter to"), then the formatted value and the date phrase of  *)
(* that change.  The reform {"gov.irs.credits.ctc.amount.base[0].amount":  *)
(* {"2025-01-01.2100-12-31": 2500}} yields one Tax Credit parameter with   *)
(* one change and a summary that contains "modifies the Amount to $2,500   *)
(* starting in 2025."                                                      *)
(***************************************************************************)
C15_Summary ==
  LET Holds(lines) ==
        /\ HasPrimaryChange =>
             /\ Len(lines) >= 3
             /\ lines[2] = ""
             /\ lines[3] =
                  SummaryLead(reform.parameters[1].type, reform.parameters[1].name)
                    \o " " \o ValueAt(1, 1) \o " " \o PhraseAt(1, 1) \o "."
        /\ (entry = "mapping" /\ reform_dict = CtcExample) =>
             /\ Len(reform.parameters) = 1
             /\ reform.parameters[1].type = "Tax Credit"
             /\ Len(reform.parameters[1].changes) = 1
             /\ Contains(lines[3], "modifies the Amount to $2,500 starting in 2025.")
  IN Rendered => Holds(Lines)

\* a first parameter with two changes of different values and dates has
\* been rendered, the summary telling the first
C15_Witness ==
  /\ Rendered
  /\ HasPrimaryChange
  /\ Len(reform.parameters[1].changes) = 2
  /\ ValueAt(1, 1) # ValueAt(1, 2)
  /\ PhraseAt(1, 1) # PhraseAt(1, 2)
  /\ Contains(Lines[3], " to " \o ValueAt(1, 1) \o " " \o PhraseAt(1, 1) \o ".")

(***************************************************************************)
(* C16: a reform with zero parameters, no simulation year and no metrics   *)
(* renders as the title "Reform to the Tax and Transfer Program" followed  *)
(* by the summary "This reform modifies federal tax and transfer policy    *)
(* parameters.", with no Details part and no Implementation part.          *)
(***************************************************************************)
C16_EmptyReform ==
  (Rendered /\ reform.parameters = <<>> /\ ~Truthy(reform.simulation_year) /\ reform.metrics = <<>>) =>
    Lines =
      <<"Reform to the Tax and Transfer Program",
        "",
        "This reform modifies federal tax and transfer policy parameters.">>

\* the empty reform mapping has been normalised and rendered
C16_Witness ==
  /\ Rendered
  /\ entry = "mapping"
  /\ reform_dict = <<>>
  /\ reform.parameters = <<>>
  /\ Len(Lines) = 3

\* of the lines, those that follow the header line "Details:", up to the
\* next empty line
DetailLinesOf(lines) ==
  LET Body(h, ends) == SubSeq(lines, h + 1, IF ends = {} THEN Len(lines) ELSE Least(ends) - 1)
      After(h) == Body(h, {e \in (h + 1)..Len(lines) : lines[e] = ""})
      From(headers) == IF headers = {} THEN <<>> ELSE After(Least(headers))
  IN From({h \in 1..Len(lines) : lines[h] = "Details:"})

DetailLines == DetailLinesOf(Lines)

\* the positions of the parameters that have a change, in order
ChangedParameters == SelectSeq([i \in 1..Len(reform.parameters) |-> i], LAMBDA i : reform.parameters[i].changes # <<>>)

(***************************************************************************)
(* C17: the Details part holds exactly one sentence per change: there is   *)
(* one line per parameter that has changes, the lines are in the order of  *)
(* the parameters, a line is the sentences of the changes of its parameter *)
(* in order, joined by spaces, and a parameter without changes contributes *)
(* no line.                                                                *)
(***************************************************************************)
C17_DetailLines ==
  Rendered =>
    LET Holds(detail_lines, changed) ==
          /\ Len(detail_lines) = Len(changed)
          /\ \A j \in 1..Len(changed) :
               detail_lines[j] =
                 JoinStr([k \in 1..Len(reform.parameters[changed[j]].changes) |->
                            DetailSentence(reform.parameters[changed[j]], k - 1)], " ")
    IN Holds(DetailLines, ChangedParameters)

\* two parameters, the first without changes and the second with two, have
\* been rendered to one detail line
C17_Witness ==
  /\ Rendered
  /\ Len(reform.parameters) = 2
  /\ reform.parameters[1].changes = <<>>
  /\ Len(reform.parameters[2].changes) = 2
  /\ Len(DetailLines) = 1

\* no parameter of the reform has a change
NoChange == \A i \in 1..Len(reform.parameters) : reform.parameters[i].changes = <<>>

(***************************************************************************)
(* C18: the description is the title, the summary, the details and the     *)
(* implementation joined by blank lines, every empty part omitted; when    *)
(* the reform has parameters but none of them has a change, no Details     *)
(* part appears, not even the header "Details:".                           *)
(***************************************************************************)
C18_EmptyPartsOmitted ==
  LET Holds(paragraphs) ==
        /\ \A i \in 1..Len(paragraphs) : paragraphs[i] # ""
        /\ MatchAt(paragraphs[1], "Reform to the ", 1)
        /\ (reform.parameters # <<>> /\ NoChange) => ~Contains(description, "Details:")
  IN Rendered => Holds(Paragraphs)

\* of the lines, those that follow the header line "Implementation:"
ImplementationLinesOf(lines) ==
  LET From(headers) == IF headers = {} THEN <<>> ELSE SubSeq(lines, Least(headers) + 1, Len(lines))
  IN From({h \in 1..Len(lines) : lines[h] = "Implementation:"})

ImplementationLines == ImplementationLinesOf(Lines)

\* the agencies of the parameters of the reform
ReformAgencies == {reform.parameters[i].agency : i \in 1..Len(reform.parameters)}

\* the start years of the changes whose start is a date
DatedYears ==
  {DigitsToInt(StartYearText(reform.parameters[pos[1]].changes[pos[2]].start_date.s)) :
     pos \in {q \in ChangePositions :
                /\ reform.parameters[q[1]].changes[q[2]].start_date.t = "str"
                /\ IsIsoDate(reform.parameters[q[1]].changes[q[2]].start_date.s)}}

\* the years, ascending, separated by ", "
YearList(years) ==
  LET Listed(sorted_years) == JoinStr([i \in 1..Len(sorted_years) |-> NatToStr(sorted_years[i])], ", ")
  IN Listed(Sorted(years))

(***************************************************************************)
(* C19: the Implementation part names each agency of the parameters        *)
(* exactly once and each distinct start year of the dated changes exactly  *)
(* once, ascending: "The reform would take effect in Y." for one year,     *)
(* "The reform would be implemented across multiple years: ..." for        *)
(* several; opaque changes contribute no year; the part is omitted when    *)
(* there is no agency, year, simulation year or metric to report.          *)
(***************************************************************************)
C19_Implementation ==
  Rendered =>
    LET Holds(lines, agencies, years) ==
          /\ agencies # {} =>
               /\ lines # <<>>
               /\ \E order \in SetOrders(agencies) :
                    lines[1] = "This reform would be implemented through " \o JoinStr(order, ", ") \o "."
          /\ SelectSeq(lines, LAMBDA line : MatchAt(line, "The reform would ", 1)) =
               IF years = {} THEN <<>>
               ELSE IF Cardinality(years) = 1
               THEN <<"The reform would take effect in " \o YearList(years) \o ".">>
               ELSE <<"The reform would be implemented across multiple years: " \o YearList(years) \o ".">>
          /\ (agencies = {} /\ years = {} /\ ~Truthy(reform.simulation_year) /\ reform.metrics = <<>>)
               <=> ~Contains(description, "Implementation:")
    IN Holds(ImplementationLines, ReformAgencies, DatedYears)

\* two parameters of one agency, the later year first and an opaque change
\* among the changes, have been rendered
C19_Witness ==
  /\ Rendered
  /\ Len(reform.parameters) = 2
  /\ Cardinality(ReformAgencies) = 1
  /\ Cardinality(ChangePositions) = 3
  /\ ImplementationLines =
       <<"This reform would be implemented through Treasury.",
         "The reform would be implemented across multiple years: 2025, 2027.">>

\* the program each marker stands for
MarkerPrograms ==
  [marker \in {"ctc", "eitc", "snap", "tanf", "ssi", "ui", "housing", "section8", "medicaid"} |->
     CASE marker = "ctc" -> "Child Tax Credit"
       [] marker = "eitc" -> "Earned Income Tax Credit"
       [] marker = "snap" -> "Supplemental Nutrition Assistance Program"
       [] marker = "tanf" -> "Temporary Assistance for Needy Families"
       [] marker = "ssi" -> "Supplemental Security Income"
       [] marker = "ui" -> "Unemployment Insurance"
       [] marker = "housing" -> "Housing Assistance"
       [] marker = "section8" -> "Housing Assistance"
       [] marker = "medicaid" -> "Medicaid"]

\* the segments of the path of the first parameter, lowercased
PrimarySegments ==
  LET Lowered(parts) == [i \in 1..Len(parts) |-> Lower(parts[i])]
  IN Lowered(Split(reform.parameters[1].path, "."))

\* the program of the first of the segments that is a marker, "" when none is
MarkedProgram ==
  LET Named(parts, marked) == IF marked = {} THEN "" ELSE MarkerPrograms[parts[Least(marked)]]
      First(parts) == Named(parts, {i \in 1..Len(parts) : parts[i] \in DOMAIN MarkerPrograms})
  IN First(PrimarySegments)

(***************************************************************************)
(* C20 as amended: the title is "Reform to the {program name}"; the        *)
(* program name is that of the first segment of the first parameter's path *)
(* that is, without regard to case, one of the markers ctc, eitc, snap,    *)
(* tanf, ssi, ui, housing, section8, medicaid; when no segment is a marker *)
(* it is "{type of the first parameter} Program", and "Government Program" *)
(* when that type is empty; only the first parameter influences the title. *)
(***************************************************************************)
C20_Title ==
  (Rendered /\ reform.parameters # <<>>) =>
    Lines[1] =
      "Reform to the " \o
        (IF MarkedProgram # "" THEN MarkedProgram
         ELSE IF reform.parameters[1].type # "" THEN reform.parameters[1].type \o " Program"
         ELSE "Government Program")

\* a first parameter whose path holds two markers, the first in upper case,
\* and a second parameter of another program have been rendered
C20_Witness ==
  /\ Rendered
  /\ Len(reform.parameters) = 2
  /\ reform.parameters[1].path = "gov.usda.SNAP.limit"
  /\ reform.parameters[2].path = "gov.irs.credits.ctc.amount"
  /\ Lines[1] = "Reform to the Supplemental Nutrition Assistance Program"

(***************************************************************************)
(* C20 as stated: as above, but the title is "{type of the first           *)
(* parameter} Program" whenever no segment is a marker.                    *)
(***************************************************************************)
C20_Original ==
  (Rendered /\ reform.parameters # <<>>) =>
    Lines[1] =
      "Reform to the " \o
        (IF MarkedProgram # "" THEN MarkedProgram ELSE reform.parameters[1].type \o " Program")

(***************************************************************************)
(* C21: rendering is deterministic: two renderings of equal PolicyReform   *)
(* values give the same string, the order of the agencies in the           *)
(* Implementation part included.  Stated on one rendering: every order in  *)
(* which the agency set of the reform can be iterated renders the          *)
(* description that was rendered.                                          *)
(***************************************************************************)
C21_Deterministic ==
  Rendered =>
    \A agency_order \in SetOrders(Agencies(reform)) :
      _generate_reform_description(reform, agency_order) = description

(***************************************************************************)
(* C27: when the reform has parameters and its first parameter has no      *)
(* change, the summary is "This reform modifies one or more parameters of  *)
(* the federal tax and transfer system." whatever the changes of the other *)
(* parameters, and the Details part still holds a sentence for every       *)
(* change of those parameters.                                             *)
(***************************************************************************)
C27_GenericSummary ==
  LET Holds(lines, detail_lines) ==
        /\ Len(lines) >= 3
        /\ lines[2] = ""
        /\ lines[3] = "This reform modifies one or more parameters of the federal tax and transfer system."
        /\ \A pos \in ChangePositions :
             \E j \in 1..Len(detail_lines) :
               Contains(detail_lines[j], DetailSentence(reform.parameters[pos[1]], pos[2] - 1))
  IN (Rendered /\ reform.parameters # <<>> /\ reform.parameters[1].changes = <<>>) =>
       Holds(Lines, DetailLines)

\* a first parameter without changes and a second parameter with a change
\* have been rendered with the generic summary and a detail sentence
C27_Witness ==
  /\ Rendered
  /\ Len(reform.parameters) = 2
  /\ reform.parameters[1].changes = <<>>
  /\ reform.parameters[2].changes # <<>>
  /\ Lines[3] = "This reform modifies one or more parameters of the federal tax and transfer system."
  /\ Contains(description, DetailSentence(reform.parameters[2], 0))

(***************************************************************************)
(* C25: when the text holds the call Reform.from_dict( without the         *)
(* country-id keyword, the extractor takes the text between the opening    *)
(* and the closing parenthesis as the reform literal, and a literal the    *)
(* strict parse accepts is returned; when the keyword is present the text  *)
(* taken ends at the keyword.                                              *)
(***************************************************************************)
C25_CallSpanEnd ==
  LET start == Find(code, CallName, 1) + Len(CallName)
      end == IF Contains(code, "country_id")
             THEN Find(code, ", country_id", start)
             ELSE Find(code, ")", start)
      Holds(span, strict) ==
        /\ CallSpan.found
        /\ LiteralSpan = span
        /\ strict.ok => Returned /\ reform_dict = strict.val
      Taken(span) == Holds(span, literal_eval(span))
  IN (entry \in {"parse_policy_json", "extract_reform_dict_from_code"}
        /\ pc # "source" /\ Contains(code, CallName))
       => Taken(SubSeq(code, start, end - 1))

(***************************************************************************)
(* C26: parse_policy_reform emits exactly one record per (parameter,       *)
(* date-range key) pair, parameters outer and date ranges inner, each with *)
(* the two parts of its key as start_date and end_date; when a key does    *)
(* not split on "." into exactly two parts the call fails with an error    *)
(* and returns no record, none for the pairs before that key either.       *)
(***************************************************************************)
C26_OneRecordPerPair ==
  LET RECURSIVE Before(_)
      \* the number of pairs of the parameters before the i-th
      Before(i) == IF i = 1 THEN 0 ELSE Before(i - 1) + Len(reform_dict[i - 1][2])
      pairs == {pos \in (1..Len(reform_dict)) \X (1..MaxChanges + 1) : pos[2] <= Len(reform_dict[pos[1]][2])}
      Key(pos) == reform_dict[pos[1]][2][pos[2]][1]
      IsRecordOf(record, pos, parts) ==
        /\ record.parameter = reform_dict[pos[1]][1]
        /\ record.start_date = parts[1]
        /\ record.end_date = parts[2]
        /\ record.new_value = reform_dict[pos[1]][2][pos[2]][2]
  IN (entry = "parse_policy_reform" /\ pc = "returned") =>
       IF \A pos \in pairs : Len(Split(Key(pos), ".")) = 2
       THEN /\ error = ""
            /\ Len(reforms_info) = Before(Len(reform_dict) + 1)
            /\ \A pos \in pairs :
                 IsRecordOf(reforms_info[Before(pos[1]) + pos[2]], pos, Split(Key(pos), "."))
       ELSE /\ error # ""
            /\ reforms_info = <<>>

(***************************************************************************)
(* Vocabulary of the properties of drafting.                               *)
(***************************************************************************)
\* the call of the gateway, or the request, got the text of the service
Drafted == pc \in {"returned", "drafted"}

\* the call of the gateway, or the request to the service, failed
DraftFailed == pc \in {"raised", "failed"}

\* the failure is one of the service itself
OwnFailure ==
  collaborator.kind \in {"AuthenticationError", "RateLimitError", "InternalServerError", "unconfigured"}

\* the text returned or displayed
BillText == IF bill_text.t = "tuple" THEN bill_text.bill_text ELSE bill_text.s

\* text is content without the whitespace around it
IsTrimOf(text, content) ==
  /\ text # "" => ~IsSpaceCh(Ch(text, 1)) /\ ~IsSpaceCh(Ch(text, Len(text)))
  /\ \E i \in 0..(Len(content) - Len(text)) :
       /\ SubSeq(content, i + 1, i + Len(text)) = text
       /\ \A k \in (1..i) \cup ((i + Len(text) + 1)..Len(content)) : IsSpaceCh(Ch(content, k))

(***************************************************************************)
(* C22: the gateway returns the text of the service unmodified but for the *)
(* whitespace trimmed around it; a failure of the service itself           *)
(* (authentication, rate limit, service error) is reported with the        *)
(* message "OpenAI API error: ..." and any other failure with "Unexpected  *)
(* error: ...", so that the caller can tell them apart; every failure is   *)
(* a generation error, and no bill text is returned with it.               *)
(***************************************************************************)
C22_Gateway ==
  (Drafted \/ DraftFailed) =>
    /\ Drafted <=> (collaborator.kind = "completed" /\ collaborator.content.t = "str")
    /\ Drafted => error = "" /\ IsTrimOf(BillText, collaborator.content.s)
    /\ DraftFailed =>
         /\ bill_text = Absent
         /\ error = (IF OwnFailure THEN "OpenAI API error: " \o collaborator.message
                     ELSE "Unexpected error: 'NoneType' object has no attribute 'strip'")
         /\ entry = "generate_bill_text" =>
              generate_bill_text(description, "o3", FALSE, collaborator).raised = "BillGenerationError"

\* the gateway has returned a text that the service sent with whitespace
\* around it
C22_Witness ==
  /\ entry = "generate_bill_text"
  /\ pc = "returned"
  /\ BillText # collaborator.content.s
  /\ BillText = "H.R. ____\nA BILL\nSECTION 1: SHORT TITLE."

(***************************************************************************)
(* C23: in a drafting request, and in a call of the gateway, the service   *)
(* is sent at most one request: a failed request is reported and is not    *)
(* sent again.                                                             *)
(***************************************************************************)
C23_AtMostOnce ==
  [][/\ Len(requests') <= 1
     /\ DraftFailed' => error' # ""
     /\ DraftFailed => requests' = requests]_vars

\* the service failed the one request of a code-input drafting request
C23_Witness ==
  /\ entry = "generate_policy_bill"
  /\ pc = "failed"
  /\ collaborator.kind = "RateLimitError"
  /\ Len(requests) = 1
  /\ error = "OpenAI API error: Rate limit reached"

(***************************************************************************)
(* C24: in the code-input drafting request the stages run in the order     *)
(* extract, normalize, render, gateway: each stage works on what the stage *)
(* before it returned, and the service is sent a request only after        *)
(* rendering; when extraction, normalization or rendering fails the        *)
(* request aborts with an error message, no request is sent and no bill    *)
(* text is displayed; when the gateway fails no bill text is displayed.    *)
(***************************************************************************)
C24_StageOrder ==
  [][LET Extract(result) ==
           IF result.ok THEN pc' = "extracted" /\ reform_dict' = result.reform_dict ELSE pc' = "aborted"
         Normalize(result) ==
           IF result.raised = "" THEN pc' = "normalised" /\ reforms_info' = result.reforms_info
           ELSE pc' = "aborted"
         Render(result) ==
           IF result.raised = "" THEN pc' = "rendered" /\ description' = result.text ELSE pc' = "aborted"
     IN entry = "generate_policy_bill" =>
          /\ (pc = "clicked" /\ Strip(code) # "") => Extract(extract_reform_dict_from_code(code))
          /\ pc = "extracted" => Normalize(parse_policy_reform(reform_dict, package'))
          /\ pc = "normalised" => Render(generate_policy_text(reforms_info))
          /\ reform_dict' # reform_dict => pc = "clicked"
          /\ reforms_info' # reforms_info => pc = "extracted"
          /\ description' # description => pc = "normalised"
          /\ requests' # requests => pc = "rendered"
          /\ pc' = "aborted" => error' # "" /\ requests' = <<>> /\ bill_text' = Absent
          /\ pc' = "failed" => error' # "" /\ bill_text' = Absent]_vars

\* a request whose rendering failed, after extraction and normalization,
\* has aborted without a request to the service
C24_Witness ==
  /\ entry = "generate_policy_bill"
  /\ pc = "aborted"
  /\ reforms_info # <<>>
  /\ description = ""
  /\ error = "Error processing PolicyEngine reform: 'str' object has no attribute 'get'"
  /\ requests = <<>>

====
